---------------------------- MODULE Spec2Model ----------------------------
(***************************************************************************)
(* Ingestion and reconciliation pipeline of backend/server.py: uploads,    *)
(* field mapping, conflict detection, the record lifecycle, conflict       *)
(* resolution and payout generation, over the document store.              *)
(***************************************************************************)
EXTENDS Integers, Sequences, FiniteSets, TLC

VARIABLES
    carriers,   \* db.carriers:          carrier id -> carrier document
    agents,     \* db.agents:            agent id   -> agent document
    uploads,    \* db.uploads:           upload id  -> upload document
    records,    \* db.extracted_records: record id  -> record document
    conflicts,  \* db.conflicts:         conflict id -> conflict document
    payouts,    \* db.payouts:           payout id  -> payout document
    jobs,       \* locals of the create_upload requests still in their row loop
    calls,      \* locals of the other requests that are between two awaits
    last        \* the request served last and its HTTP status

vars == <<carriers, agents, uploads, records, conflicts, payouts, jobs, calls, last>>

store == <<carriers, agents, uploads, records, conflicts, payouts>>

\* the response recorded for a request; a behaviour that starts with the
\* recording off (op = "off") keeps it off
Reply(op, code) == IF last.op = "off" THEN last ELSE [op |-> op, code |-> code]

----------------------------------------------------------------------------
(* Bounds of the model *)

MaxRecords == 2     \* the highest record id (an id that is still named is not reused)
MaxUploads == 2     \* the highest upload id
MaxRows == 2        \* rows extracted from one file
MaxRaceRecords == 3 \* the highest record id when uploads run at the same time
MaxSheetRows == 21  \* rows of a sheet
MaxSheetCols == 51  \* columns of a sheet
MaxPayouts == 2     \* payouts ever created

----------------------------------------------------------------------------
(* Python values: None, int and str are kept apart, so that 100 and "100"  *)
(* are different values with the same str().                               *)

None == [none |-> TRUE]
PyInt(n) == [int |-> n]
PyStr(s) == [str |-> s]

IsNone(v) == DOMAIN v = {"none"}
IsInt(v) == DOMAIN v = {"int"}
IsStr(v) == DOMAIN v = {"str"}

Digit(d) ==
    CASE d = 0 -> "0" [] d = 1 -> "1" [] d = 2 -> "2" [] d = 3 -> "3"
      [] d = 4 -> "4" [] d = 5 -> "5" [] d = 6 -> "6" [] d = 7 -> "7"
      [] d = 8 -> "8" [] d = 9 -> "9"

RECURSIVE IntToStr(_)
IntToStr(n) ==
    IF n < 0 THEN "-" \o IntToStr(0 - n)
    ELSE IF n < 10 THEN Digit(n) ELSE IntToStr(n \div 10) \o Digit(n % 10)

\* str(v) of a value that is not None
Str(v) == IF IsInt(v) THEN IntToStr(v.int) ELSE v.str

\* bool(v)
Truthy(v) ==
    IF IsNone(v) THEN FALSE
    ELSE IF IsInt(v) THEN v.int # 0
    ELSE v.str # ""

\* d.get(k): a dict is a function from its keys
Get(d, k) == IF k \in DOMAIN d THEN d[k] ELSE None

\* d[k] = v on a dict
Put(d, k, v) == [x \in DOMAIN d \cup {k} |-> IF x = k THEN v ELSE d[x]]

\* a store filter {"<k>": v} on a sub-document: null matches a missing field too
FieldEq(d, k, v) ==
    IF IsNone(v) THEN k \notin DOMAIN d \/ IsNone(d[k])
    ELSE k \in DOMAIN d /\ d[k] = v

\* field.startswith("_"), over the field names of the model
StartsWithUnderscore(f) == f \in {"_raw", "_note"}

\* the iteration order of the keys of a mapped row (the order of the carrier's
\* field_mappings, then what was added later)
KeyOrder ==
    <<"policy_number", "amount", "agent_code", "agent_id", "_note", "_raw", "record">>

Keys(d) == SelectSeq(KeyOrder, LAMBDA k : k \in DOMAIN d)

----------------------------------------------------------------------------
(* Carriers, agents and the rows a file can hold *)

CarrierIds == {"c1", "c2", "c3"}

\* agent-aware layout, matched on the policy number or the agent code
Carrier1 ==
    [ name |-> "Alpha", code |-> "ALPHA",
      field_mappings |-> << <<"Policy Number", "policy_number">>,
                            <<"Premium", "amount">>,
                            <<"Agent", "agent_code">> >>,
      primary_key_fields |-> <<"policy_number", "agent_code">> ]

\* the carrier of the spec's scenario (section 8)
Carrier2 ==
    [ name |-> "Beta", code |-> "BETA",
      field_mappings |-> << <<"Policy Number", "policy_number">>,
                            <<"Premium", "amount">> >>,
      primary_key_fields |-> <<"policy_number">> ]

\* no primary key declared, the premium column named in lower case
Carrier3 ==
    [ name |-> "Gamma", code |-> "GAMMA",
      field_mappings |-> << <<"Policy Number", "policy_number">>,
                            <<"premium", "amount">> >>,
      primary_key_fields |-> << >> ]

\* a layout whose premium column is mapped to the reserved name _raw
Carrier4 ==
    [ name |-> "Delta", code |-> "DELTA",
      field_mappings |-> << <<"Policy Number", "policy_number">>,
                            <<"Premium", "_raw">> >>,
      primary_key_fields |-> <<"policy_number">> ]

\* a layout with two columns that name the agent
Carrier5 ==
    [ name |-> "Epsilon", code |-> "EPS",
      field_mappings |-> << <<"Policy Number", "policy_number">>,
                            <<"Premium", "amount">>,
                            <<"Agent", "agent_code">>,
                            <<"Agent Id", "agent_id">> >>,
      primary_key_fields |-> <<"policy_number">> ]

Agent1 ==
    [ agent_code |-> "A1", name |-> "Ann", commission_rate |-> 10,
      total_payouts |-> 0 ]

Row(policy, premium, agent) ==
    [x \in {"Policy Number", "Premium", "Agent"} |->
        CASE x = "Policy Number" -> policy
          [] x = "Premium" -> premium
          [] x = "Agent" -> agent]

RowA == Row(PyStr("P1"), PyInt(100), PyStr("A1"))
RowB == Row(PyStr("P1"), PyInt(150), PyStr("A1"))
RowC == Row(PyStr("P2"), None, PyStr("A2"))
RowD == Row(PyStr("P1"), PyStr("100"), PyStr("A2"))
RowE == [x \in {"Premium"} |-> PyInt(150)]
\* a chargeback: the premium is taken back from the agent
RowF == Row(PyStr("P2"), PyInt(0 - 50), PyStr("A1"))

\* rows with a second agent column: the first names no agent or is empty,
\* the second names the agent A1
RowH == [x \in {"Policy Number", "Premium", "Agent", "Agent Id"} |->
            CASE x = "Policy Number" -> PyStr("P1")
              [] x = "Premium" -> PyInt(150)
              [] x = "Agent" -> PyStr("A9")
              [] x = "Agent Id" -> PyStr("A1")]
RowI == [RowH EXCEPT !["Policy Number"] = PyStr("P2"), !["Agent"] = PyStr("")]

\* a row of a file of another layout: no column that the carrier maps
RowG == [x \in {"Memo"} |-> PyStr("May statement")]

RawRows == {RowA, RowB, RowC, RowD, RowE}

\* what a file can hold: at least one row, at most MaxRows
RowSeqs(rows) == UNION {[1..n -> rows] : n \in 1..MaxRows}

----------------------------------------------------------------------------
(* Field Mapper *)

\* s.lower(), over the source field names and the file suffixes of the model
Lower(s) ==
    CASE s = "Policy Number" -> "policy number"
      [] s = "Premium" -> "premium"
      [] s = "Agent" -> "agent"
      [] s = ".CSV" -> ".csv"
      [] OTHER -> s

\* the raw key a source field reads: the exact key, else a key equal to it
\* ignoring case, else nothing
SourceKey(raw_data, source_field) ==
    IF source_field \in DOMAIN raw_data THEN {source_field}
    ELSE LET m == {key \in DOMAIN raw_data : Lower(key) = Lower(source_field)}
         IN  IF m = {} THEN {} ELSE {CHOOSE key \in m : TRUE}

RECURSIVE MapFields(_, _, _, _)
MapFields(raw_data, mappings, i, mapped) ==
    IF i > Len(mappings) THEN mapped
    ELSE LET source_field == mappings[i][1]
             target_field == mappings[i][2]
             k == SourceKey(raw_data, source_field)
         IN  MapFields(raw_data, mappings, i + 1,
                 IF k = {} THEN mapped
                 ELSE Put(mapped, target_field, raw_data[CHOOSE key \in k : TRUE]))

\* apply_field_mappings that stores the raw payload before the mapped fields
apply_field_mappings_RawFirst(raw_data, mappings) ==
    MapFields(raw_data, mappings, 1, Put(<< >>, "_raw", raw_data))

apply_field_mappings(raw_data, mappings) ==
    Put(MapFields(raw_data, mappings, 1, << >>), "_raw", raw_data)

----------------------------------------------------------------------------
(* Conflict Detector *)

\* the primary keys the query carries a condition for
PkConditions(mapped_data, primary_keys) ==
    {primary_keys[i] : i \in {j \in 1..Len(primary_keys) :
                                 primary_keys[j] \in DOMAIN mapped_data}}

\* Matches that looks at the validated records only
Matches_Validated(mapped_data, carrier_id, primary_keys) ==
    LET pk_conditions == PkConditions(mapped_data, primary_keys)
    IN  {r \in DOMAIN records :
            /\ records[r].carrier_id = carrier_id
            /\ records[r].status = "validated"
            /\ \/ pk_conditions = {}
               \/ \E pk \in pk_conditions :
                     FieldEq(records[r].mapped_data, pk, mapped_data[pk])}

\* Matches without the status filter
Matches_AnyStatus(mapped_data, carrier_id, primary_keys) ==
    LET pk_conditions == PkConditions(mapped_data, primary_keys)
    IN  {r \in DOMAIN records :
            /\ records[r].carrier_id = carrier_id
            /\ \/ pk_conditions = {}
               \/ \E pk \in pk_conditions :
                     FieldEq(records[r].mapped_data, pk, mapped_data[pk])}

\* the documents the find_one query of detect_conflicts matches
Matches(mapped_data, carrier_id, primary_keys) ==
    LET pk_conditions == PkConditions(mapped_data, primary_keys)
    IN  {r \in DOMAIN records :
            /\ records[r].carrier_id = carrier_id
            /\ records[r].status \in {"validated", "pending"}
            /\ \/ pk_conditions = {}
               \/ \E pk \in pk_conditions :
                     FieldEq(records[r].mapped_data, pk, mapped_data[pk])}

\* Mismatch with the two values exchanged
Mismatch_Swapped(field, existing_value, new_value, existing_id) ==
    [type |-> "mismatch", field |-> field, existing_value |-> new_value,
     new_value |-> existing_value, existing_record_id |-> existing_id]

\* lines 584-590
Mismatch(field, existing_value, new_value, existing_id) ==
    [type |-> "mismatch", field |-> field, existing_value |-> existing_value,
     new_value |-> new_value, existing_record_id |-> existing_id]

\* lines 593-598
Duplicate(existing_id) ==
    [type |-> "duplicate", field |-> "record", existing_record_id |-> existing_id]

\* MismatchFields comparing the values themselves, not their strings
MismatchFields_ByValue(mapped_data, existing_data) ==
    SelectSeq(Keys(mapped_data), LAMBDA field :
        /\ ~StartsWithUnderscore(field)
        /\ ~IsNone(Get(existing_data, field))
        /\ ~IsNone(mapped_data[field])
        /\ Get(existing_data, field) # mapped_data[field])

\* lines 578-583: the fields of the new row that mismatch the matched record
MismatchFields(mapped_data, existing_data) ==
    SelectSeq(Keys(mapped_data), LAMBDA field :
        /\ ~StartsWithUnderscore(field)
        /\ ~IsNone(Get(existing_data, field))
        /\ ~IsNone(mapped_data[field])
        /\ Str(Get(existing_data, field)) # Str(mapped_data[field]))

\* the conflict list, given the document find_one returned (0: none)
detect_conflicts(mapped_data, existing) ==
    IF existing = 0 THEN << >>
    ELSE LET existing_data == records[existing].mapped_data
             fields == MismatchFields(mapped_data, existing_data)
         IN  IF fields # << >>
             THEN [i \in 1..Len(fields) |->
                     Mismatch(fields[i], existing_data[fields[i]],
                              mapped_data[fields[i]], existing)]
             ELSE <<Duplicate(existing)>>

\* what find_one may return: any matching document, 0 when there is none
FindOne(matching) == IF matching = {} THEN {0} ELSE matching

----------------------------------------------------------------------------
(* Uploads *)

NoJob == << >>

\* no request is in flight
Idle == DOMAIN jobs = {} /\ DOMAIN calls = {}

Max(ids) == CHOOSE x \in ids : \A y \in ids : y <= x

\* str(uuid.uuid4()): an id that no stored document has; ids are counted up
NewId(docs) == Max(DOMAIN docs \cup {0}) + 1

\* the upload ids that the store or a running request still names
UsedUploadIds ==
    DOMAIN uploads \cup DOMAIN jobs
      \cup {records[r].upload_id : r \in DOMAIN records}
      \cup {conflicts[c].upload_id : c \in DOMAIN conflicts}

\* the record ids that the store still names
UsedRecordIds ==
    DOMAIN records
      \cup {conflicts[c].record_id : c \in DOMAIN conflicts}
      \cup {conflicts[c].existing_record_id : c \in DOMAIN conflicts}
      \cup {payouts[p].record_id : p \in DOMAIN payouts}
      \cup UNION {{records[r].conflicts[i].existing_record_id :
                      i \in DOMAIN records[r].conflicts} : r \in DOMAIN records}

\* line 622: an upload id that nothing names
NewUploadId == Max(UsedUploadIds \cup {0}) + 1

\* line 670: a record id that nothing names
NewRecordId == Max(UsedRecordIds \cup {0}) + 1

ConflictDoc(record_id, upload_id, conflict) ==
    [ record_id |-> record_id, upload_id |-> upload_id,
      existing_record_id |-> conflict.existing_record_id,
      conflict_type |-> conflict.type,
      field_name |-> conflict.field,
      current_value |-> Get(conflict, "existing_value"),
      new_value |-> Get(conflict, "new_value"),
      status |-> "pending", resolution |-> "" ]

\* conflicts.insert_one for each conflict of the list, ids in list order
InsertConflicts(record_id, upload_id, list) ==
    LET n == Max(DOMAIN conflicts \cup {0})
    IN  [c \in DOMAIN conflicts \cup (n + 1 .. n + Len(list)) |->
            IF c \in DOMAIN conflicts THEN conflicts[c]
            ELSE ConflictDoc(record_id, upload_id, list[c - n])]

\* RecordDoc keeping the initial status whatever the detector returned
RecordDoc_AlwaysPending(upload_id, carrier_id, raw_record, mapped_data, found) ==
    [ upload_id |-> upload_id, carrier_id |-> carrier_id,
      raw_data |-> raw_record, mapped_data |-> mapped_data,
      status |-> "pending", conflicts |-> found ]

\* lines 669-684: the record document of a row, given the detector's list
RecordDoc(upload_id, carrier_id, raw_record, mapped_data, found) ==
    [ upload_id |-> upload_id, carrier_id |-> carrier_id,
      raw_data |-> raw_record, mapped_data |-> mapped_data,
      status |-> IF found # << >> THEN "conflict" ELSE "pending",
      conflicts |-> found ]

\* file names, as the sequence of their parts between the dots
Filenames == {<<"may", "xlsx">>, <<"may", "CSV">>, <<"may", "csv", "txt">>, <<"may">>}

\* the file name of the uploads of a specification that looks at one only
OneFile == {<<"may", "xlsx">>}

\* line 618: Path(file.filename).suffix
Suffix(filename) ==
    IF Len(filename) < 2 THEN "" ELSE "." \o filename[Len(filename)]

\* line 619
Supported == {".xlsx", ".xls", ".pdf", ".csv"}

\* lines 612-620: an unknown carrier is answered 404, an unsupported file
\* type 400, before anything is written
create_upload_reject(carrier_id, filename) ==
    /\ carrier_id \notin DOMAIN carriers \/ Lower(Suffix(filename)) \notin Supported
    /\ last' = Reply("create_upload",
                     IF carrier_id \notin DOMAIN carriers THEN 404 ELSE 400)
    /\ UNCHANGED <<store, jobs, calls>>

\* the locals of a create_upload request that enters its row loop; alone
\* records whether no other upload has been running since it started
NewJob(carrier_id, rows) ==
    [ carrier_id |-> carrier_id, carrier |-> carriers[carrier_id],
      extracted_data |-> rows, idx |-> 1, conflict_count |-> 0,
      alone |-> DOMAIN jobs = {} ]

\* the running uploads, once another one starts beside them
Overlapped == [u \in DOMAIN jobs |-> [jobs[u] EXCEPT !.alone = FALSE]]

\* create_upload_start taking a file of any type
create_upload_start_AnyType(carrier_id, filename, rows) ==
    /\ carrier_id \in DOMAIN carriers
    /\ NewUploadId <= MaxUploads
    /\ NewRecordId + Len(rows) - 1 <= MaxRecords
    /\ LET upload_id == NewUploadId
       IN  /\ uploads' = Put(uploads, upload_id,
                   [ filename |-> filename,
                     carrier_id |-> carrier_id, status |-> "processing",
                     total_records |-> 0, processed_records |-> 0,
                     conflict_count |-> 0 ])
           /\ jobs' = Put(Overlapped, upload_id, NewJob(carrier_id, rows))
           /\ last' = Reply("create_upload", 0)
    /\ UNCHANGED <<carriers, agents, records, conflicts, payouts, calls>>

\* lines 612-664: the carrier and extension checks passed, the upload
\* document is stored and the rows are extracted
create_upload_open(carrier_id, filename, rows) ==
    /\ carrier_id \in DOMAIN carriers
    /\ Lower(Suffix(filename)) \in Supported
    /\ NewUploadId <= MaxUploads
    /\ LET upload_id == NewUploadId
       IN  /\ uploads' = Put(uploads, upload_id,
                   [ filename |-> filename,
                     carrier_id |-> carrier_id, status |-> "processing",
                     total_records |-> 0, processed_records |-> 0,
                     conflict_count |-> 0 ])
           /\ jobs' = Put(Overlapped, upload_id, NewJob(carrier_id, rows))
           /\ last' = Reply("create_upload", 0)
    /\ UNCHANGED <<carriers, agents, records, conflicts, payouts, calls>>

\* create_upload_open when the records of the file fit the bound
create_upload_start(carrier_id, filename, rows) ==
    /\ NewRecordId + Len(rows) - 1 <= MaxRecords
    /\ create_upload_open(carrier_id, filename, rows)

\* lines 666-703: one turn of the row loop
create_upload_row(upload_id) ==
    /\ upload_id \in DOMAIN jobs
    /\ jobs[upload_id].idx <= Len(jobs[upload_id].extracted_data)
    /\ LET job == jobs[upload_id]
           carrier_id == job.carrier_id
           raw_record == job.extracted_data[job.idx]
           mapped_data == apply_field_mappings(raw_record, job.carrier.field_mappings)
           record_id == NewRecordId
       IN  \E existing \in FindOne(Matches(mapped_data, carrier_id,
                                           job.carrier.primary_key_fields)) :
             LET found == detect_conflicts(mapped_data, existing)
             IN  /\ conflicts' = InsertConflicts(record_id, upload_id, found)
                 /\ records' = Put(records, record_id,
                        RecordDoc(upload_id, carrier_id, raw_record, mapped_data, found))
                 /\ jobs' = [jobs EXCEPT ![upload_id].idx = @ + 1,
                                         ![upload_id].conflict_count = @ + Len(found)]
    /\ UNCHANGED <<carriers, agents, uploads, payouts, calls, last>>

\* create_upload_detect that matches no stored record
create_upload_detect_NoMatch(upload_id) ==
    /\ upload_id \in DOMAIN jobs
    /\ jobs[upload_id].idx <= Len(jobs[upload_id].extracted_data)
    /\ "found" \notin DOMAIN jobs[upload_id]
    /\ jobs' = [jobs EXCEPT ![upload_id] = Put(@, "found", << >>)]
    /\ UNCHANGED <<store, calls, last>>

\* lines 666-681, up to the await of detect_conflicts: the row is mapped and
\* the detector's query is answered from the store as it is now
create_upload_detect(upload_id) ==
    /\ upload_id \in DOMAIN jobs
    /\ jobs[upload_id].idx <= Len(jobs[upload_id].extracted_data)
    /\ "found" \notin DOMAIN jobs[upload_id]
    /\ LET job == jobs[upload_id]
           raw_record == job.extracted_data[job.idx]
           mapped_data == apply_field_mappings(raw_record, job.carrier.field_mappings)
       IN  \E existing \in FindOne(Matches(mapped_data, job.carrier_id,
                                           job.carrier.primary_key_fields)) :
             jobs' = [jobs EXCEPT ![upload_id] =
                         Put(@, "found", detect_conflicts(mapped_data, existing))]
    /\ UNCHANGED <<store, calls, last>>

\* lines 682-703: the Conflicts and the record are inserted with what the
\* detector answered, whatever was stored since
create_upload_store(upload_id) ==
    /\ upload_id \in DOMAIN jobs
    /\ "found" \in DOMAIN jobs[upload_id]
    /\ LET job == jobs[upload_id]
           carrier_id == job.carrier_id
           raw_record == job.extracted_data[job.idx]
           mapped_data == apply_field_mappings(raw_record, job.carrier.field_mappings)
           record_id == NewRecordId
       IN  /\ conflicts' = InsertConflicts(record_id, upload_id, job.found)
           /\ records' = Put(records, record_id,
                  RecordDoc(upload_id, carrier_id, raw_record, mapped_data, job.found))
           /\ jobs' = [jobs EXCEPT ![upload_id] =
                  [f \in DOMAIN job \ {"found"} |->
                      CASE f = "idx" -> job.idx + 1
                        [] f = "conflict_count" -> job.conflict_count + Len(job.found)
                        [] OTHER -> job[f]]]
    /\ UNCHANGED <<carriers, agents, uploads, payouts, calls, last>>

\* lines 682-701: the Conflicts of the row are inserted under the id that
\* the record will get (line 670)
create_upload_conflicts(upload_id) ==
    /\ upload_id \in DOMAIN jobs
    /\ "found" \in DOMAIN jobs[upload_id]
    /\ "record_id" \notin DOMAIN jobs[upload_id]
    /\ LET record_id == NewRecordId
       IN  /\ conflicts' = InsertConflicts(record_id, upload_id, jobs[upload_id].found)
           /\ jobs' = [jobs EXCEPT ![upload_id] = Put(@, "record_id", record_id)]
    /\ UNCHANGED <<carriers, agents, uploads, records, payouts, calls, last>>

\* line 703: the record is inserted, with the status and the list that the
\* detector's answer gave it
create_upload_record(upload_id) ==
    /\ upload_id \in DOMAIN jobs
    /\ "record_id" \in DOMAIN jobs[upload_id]
    /\ LET job == jobs[upload_id]
           carrier_id == job.carrier_id
           raw_record == job.extracted_data[job.idx]
           mapped_data == apply_field_mappings(raw_record, job.carrier.field_mappings)
       IN  /\ records' = Put(records, job.record_id,
                  RecordDoc(upload_id, carrier_id, raw_record, mapped_data, job.found))
           /\ jobs' = [jobs EXCEPT ![upload_id] =
                  [f \in DOMAIN job \ {"found", "record_id"} |->
                      CASE f = "idx" -> job.idx + 1
                        [] f = "conflict_count" -> job.conflict_count + Len(job.found)
                        [] OTHER -> job[f]]]
    /\ UNCHANGED <<carriers, agents, uploads, conflicts, payouts, calls, last>>

\* create_upload_finish counting the rows in conflict, not their Conflicts
create_upload_finish_Rows(upload_id) ==
    /\ upload_id \in DOMAIN jobs
    /\ jobs[upload_id].idx > Len(jobs[upload_id].extracted_data)
    /\ IF upload_id \in DOMAIN uploads
       THEN uploads' = [uploads EXCEPT ![upload_id] =
                [@ EXCEPT !.status = "completed",
                          !.total_records = Len(jobs[upload_id].extracted_data),
                          !.processed_records = Len(jobs[upload_id].extracted_data),
                          !.conflict_count =
                              Cardinality({r \in DOMAIN records :
                                  /\ records[r].upload_id = upload_id
                                  /\ records[r].status = "conflict"})]]
       ELSE UNCHANGED uploads
    /\ jobs' = [u \in DOMAIN jobs \ {upload_id} |-> jobs[u]]
    /\ last' = Reply("create_upload", 200)
    /\ UNCHANGED <<carriers, agents, records, conflicts, payouts, calls>>

\* lines 705-729: the upload is completed and returned
create_upload_finish(upload_id) ==
    /\ upload_id \in DOMAIN jobs
    /\ jobs[upload_id].idx > Len(jobs[upload_id].extracted_data)
    /\ IF upload_id \in DOMAIN uploads
       THEN uploads' = [uploads EXCEPT ![upload_id] =
                [@ EXCEPT !.status = "completed",
                          !.total_records = Len(jobs[upload_id].extracted_data),
                          !.processed_records = Len(jobs[upload_id].extracted_data),
                          !.conflict_count = jobs[upload_id].conflict_count]]
       ELSE UNCHANGED uploads
    /\ jobs' = [u \in DOMAIN jobs \ {upload_id} |-> jobs[u]]
    /\ last' = Reply("create_upload", 200)
    /\ UNCHANGED <<carriers, agents, records, conflicts, payouts, calls>>

\* create_upload_except letting the failure out to the caller
create_upload_except_Raise(upload_id, stored) ==
    /\ upload_id \in DOMAIN jobs
    /\ jobs[upload_id].idx <= Len(jobs[upload_id].extracted_data)
    /\ stored = 0
    /\ jobs' = [u \in DOMAIN jobs \ {upload_id} |-> jobs[u]]
    /\ last' = Reply("create_upload", 500)
    /\ UNCHANGED <<store, calls>>

\* lines 646-703 and 721-729: processing fails at the row the loop has
\* reached (at the first row also: the extraction fails), after `stored` of
\* the row's Conflicts were inserted and before its record is; the failure
\* is caught, the upload is set to error and returned. A Conflict stored for
\* the row names the record id that was never inserted (here: 0 - its own id)
create_upload_except(upload_id, stored) ==
    /\ upload_id \in DOMAIN jobs
    /\ jobs[upload_id].idx <= Len(jobs[upload_id].extracted_data)
    /\ LET job == jobs[upload_id]
           carrier_id == job.carrier_id
           raw_record == job.extracted_data[job.idx]
           mapped_data == apply_field_mappings(raw_record, job.carrier.field_mappings)
       IN  \E existing \in FindOne(Matches(mapped_data, carrier_id,
                                           job.carrier.primary_key_fields)) :
             LET found == detect_conflicts(mapped_data, existing)
             IN  /\ stored <= Len(found)
                 /\ conflicts' = InsertConflicts(0 - NewId(conflicts), upload_id,
                                                 SubSeq(found, 1, stored))
    /\ IF upload_id \in DOMAIN uploads
       THEN uploads' = [uploads EXCEPT ![upload_id] =
                [f \in DOMAIN @ \cup {"error"} |->
                    IF f = "status" THEN "error"
                    ELSE IF f = "error" THEN "failed"
                    ELSE @[f]]]
       ELSE UNCHANGED uploads
    /\ jobs' = [u \in DOMAIN jobs \ {upload_id} |-> jobs[u]]
    /\ last' = Reply("create_upload", 200)
    /\ UNCHANGED <<carriers, agents, records, payouts, calls>>

----------------------------------------------------------------------------
(* Record lifecycle *)

\* the ids a request can name: those of the stored documents and one of none
RecordIds == DOMAIN records \cup {MaxRecords + 1}

\* SetConflictStatus touching the pending conflicts only
SetConflictStatus_PendingOnly(record_id, status) ==
    [c \in DOMAIN conflicts |->
        IF conflicts[c].record_id = record_id /\ conflicts[c].status = "pending"
        THEN [conflicts[c] EXCEPT !.status = status]
        ELSE conflicts[c]]

\* update_many({"record_id": record_id}, {"$set": {"status": status}})
SetConflictStatus(record_id, status) ==
    [c \in DOMAIN conflicts |->
        IF conflicts[c].record_id = record_id
        THEN [conflicts[c] EXCEPT !.status = status]
        ELSE conflicts[c]]

\* SetRecordStatus that recomputes the records matched against this one:
\* they go back to pending
SetRecordStatus_Recomputed(recs, record_id, status) ==
    [r \in DOMAIN recs |->
        IF r = record_id THEN [recs[r] EXCEPT !.status = status]
        ELSE IF \E i \in DOMAIN recs[r].conflicts :
                    recs[r].conflicts[i].existing_record_id = record_id
             THEN [recs[r] EXCEPT !.status = "pending"]
             ELSE recs[r]]

\* update_one({"id": record_id}, {"$set": {"status": status}})
SetRecordStatus(recs, record_id, status) ==
    [r \in DOMAIN recs |->
        IF r = record_id THEN [recs[r] EXCEPT !.status = status] ELSE recs[r]]

\* validate_record without the lookup of lines 850-852
validate_record_NoLookup(record_id) ==
    /\ records' = SetRecordStatus(records, record_id, "validated")
    /\ conflicts' = SetConflictStatus(record_id, "resolved")
    /\ last' = Reply("validate_record", 200)
    /\ UNCHANGED <<carriers, agents, uploads, payouts, jobs, calls>>

\* lines 848-865
validate_record(record_id) ==
    IF record_id \notin DOMAIN records
    THEN /\ last' = Reply("validate_record", 404)
         /\ UNCHANGED <<store, jobs, calls>>
    ELSE /\ records' = SetRecordStatus(records, record_id, "validated")
         /\ conflicts' = SetConflictStatus(record_id, "resolved")
         /\ last' = Reply("validate_record", 200)
         /\ UNCHANGED <<carriers, agents, uploads, payouts, jobs, calls>>

\* reject_record marking the conflicts as validate_record does
reject_record_Resolved(record_id) ==
    /\ records' = SetRecordStatus(records, record_id, "rejected")
    /\ conflicts' = SetConflictStatus(record_id, "resolved")
    /\ last' = Reply("reject_record", 200)
    /\ UNCHANGED <<carriers, agents, uploads, payouts, jobs, calls>>

\* lines 867-879
reject_record(record_id) ==
    /\ records' = SetRecordStatus(records, record_id, "rejected")
    /\ conflicts' = SetConflictStatus(record_id, "rejected")
    /\ last' = Reply("reject_record", 200)
    /\ UNCHANGED <<carriers, agents, uploads, payouts, jobs, calls>>

----------------------------------------------------------------------------
(* Conflict Resolver *)

ConflictIds == DOMAIN conflicts \cup {NewId(conflicts)}

\* ConflictResolution bodies: <<resolution, manual_value>>
Resolutions ==
    {<<"accept_new", None>>, <<"keep_current", None>>,
     <<"manual", None>>, <<"manual", PyInt(175)>>}

\* ResolvedData with accept_new writing back the value the store already had
ResolvedData_CurrentValue(conflict, resolution, manual_value, mapped_data) ==
    IF resolution = "accept_new" /\ conflict.field_name # ""
    THEN Put(mapped_data, conflict.field_name, conflict.current_value)
    ELSE IF /\ resolution = "manual"
            /\ ~IsNone(manual_value)
            /\ conflict.field_name # ""
    THEN Put(mapped_data, conflict.field_name, manual_value)
    ELSE mapped_data

\* lines 1053-1071: the mapped_data the resolution writes back to the record
ResolvedData(conflict, resolution, manual_value, mapped_data) ==
    IF resolution = "accept_new" /\ conflict.field_name # ""
    THEN Put(mapped_data, conflict.field_name, conflict.new_value)
    ELSE IF /\ resolution = "manual"
            /\ ~IsNone(manual_value)
            /\ conflict.field_name # ""
    THEN Put(mapped_data, conflict.field_name, manual_value)
    ELSE mapped_data

\* Remaining with the status filter of line 1076 left out
Remaining_AnyStatus(confs, record_id) ==
    Cardinality({c \in DOMAIN confs : confs[c].record_id = record_id})

\* lines 1073-1077: count_documents({"record_id": ..., "status": "pending"})
Remaining(confs, record_id) ==
    Cardinality({c \in DOMAIN confs :
        confs[c].record_id = record_id /\ confs[c].status = "pending"})

\* ResolveIn reopening a Conflict that is resolved already
ResolveIn_Reopen(confs, recs, conflict_id, resolution, manual_value) ==
    LET conflict == confs[conflict_id]
        record_id == conflict.record_id
        confs1 == [confs EXCEPT ![conflict_id] =
                     [@ EXCEPT !.status = IF @ = "resolved" THEN "pending" ELSE "resolved",
                               !.resolution = resolution]]
        recs1 == IF record_id \in DOMAIN recs
                 THEN [recs EXCEPT ![record_id].mapped_data =
                         ResolvedData(conflict, resolution, manual_value, @)]
                 ELSE recs
        recs2 == IF Remaining(confs1, record_id) = 0
                 THEN SetRecordStatus(recs1, record_id, "pending")
                 ELSE recs1
    IN  [conflicts |-> confs1, records |-> recs2]

\* lines 1047-1083: the two collections after the writes of a resolution of
\* a stored Conflict
ResolveIn(confs, recs, conflict_id, resolution, manual_value) ==
    LET conflict == confs[conflict_id]
        record_id == conflict.record_id
        confs1 == [confs EXCEPT ![conflict_id] =
                     [@ EXCEPT !.status = "resolved", !.resolution = resolution]]
        recs1 == IF record_id \in DOMAIN recs
                 THEN [recs EXCEPT ![record_id].mapped_data =
                         ResolvedData(conflict, resolution, manual_value, @)]
                 ELSE recs
        recs2 == IF Remaining(confs1, record_id) = 0
                 THEN SetRecordStatus(recs1, record_id, "pending")
                 ELSE recs1
    IN  [conflicts |-> confs1, records |-> recs2]

\* lines 1037-1085
resolve_conflict(conflict_id, resolution, manual_value) ==
    IF conflict_id \notin DOMAIN conflicts
    THEN /\ last' = Reply("resolve_conflict", 404)
         /\ UNCHANGED <<store, jobs, calls>>
    ELSE LET st == ResolveIn(conflicts, records, conflict_id, resolution, manual_value)
         IN  /\ conflicts' = st.conflicts
             /\ records' = st.records
             /\ last' = Reply("resolve_conflict", 200)
             /\ UNCHANGED <<carriers, agents, uploads, payouts, jobs, calls>>

----------------------------------------------------------------------------
(* Conflict Resolver, await by await *)

MaxCalls == 2       \* requests in flight at the same time

CallIds == 1..MaxCalls

\* lines 1037-1042: the request arrives; before keeps the two collections as
\* the request found them, for the comparison with the serial orders
resolve_begin(call, conflict_id, resolution, manual_value) ==
    /\ DOMAIN jobs = {}
    /\ call \notin DOMAIN calls
    /\ calls' = Put(calls, call,
            [ op |-> "resolve_conflict", conflict_id |-> conflict_id,
              resolution |-> resolution, manual_value |-> manual_value,
              pc |-> "find", conflict |-> << >>, mapped_data |-> << >>,
              before |-> [conflicts |-> conflicts, records |-> records] ])
    /\ UNCHANGED <<store, jobs, last>>

Resolving(call, pc) ==
    /\ call \in DOMAIN calls
    /\ calls[call].op = "resolve_conflict"
    /\ calls[call].pc = pc

\* lines 1043-1045: find_one({"id": conflict_id}), 404 when there is none
resolve_find(call) ==
    /\ Resolving(call, "find")
    /\ IF calls[call].conflict_id \notin DOMAIN conflicts
       THEN /\ calls' = [c \in DOMAIN calls \ {call} |-> calls[c]]
            /\ last' = Reply("resolve_conflict", 404)
       ELSE /\ calls' = [calls EXCEPT ![call].conflict = conflicts[calls[call].conflict_id],
                                      ![call].pc = "update"]
            /\ UNCHANGED last
    /\ UNCHANGED <<store, jobs>>

\* lines 1047-1051: the Conflict is marked resolved
resolve_update(call) ==
    /\ Resolving(call, "update")
    /\ LET c == calls[call]
       IN  /\ conflicts' =
                 IF c.conflict_id \in DOMAIN conflicts
                 THEN [conflicts EXCEPT ![c.conflict_id] =
                         [@ EXCEPT !.status = "resolved", !.resolution = c.resolution]]
                 ELSE conflicts
           /\ calls' = [calls EXCEPT ![call].pc =
                 IF \/ c.resolution = "accept_new"
                    \/ c.resolution = "manual" /\ ~IsNone(c.manual_value)
                 THEN "read" ELSE "count"]
    /\ UNCHANGED <<carriers, agents, uploads, records, payouts, jobs, last>>

\* lines 1055-1057 and 1064-1066: the record is read, with its mapped_data
resolve_read(call) ==
    /\ Resolving(call, "read")
    /\ LET c == calls[call]
       IN  calls' =
             IF c.conflict.record_id \in DOMAIN records /\ c.conflict.field_name # ""
             THEN [calls EXCEPT ![call].mapped_data =
                                   records[c.conflict.record_id].mapped_data,
                                ![call].pc = "write"]
             ELSE [calls EXCEPT ![call].pc = "count"]
    /\ UNCHANGED <<store, jobs, last>>

\* lines 1058-1062 and 1067-1071: the field is set in the mapped_data that was
\* read, and the whole of it is written back with $set
resolve_write(call) ==
    /\ Resolving(call, "write")
    /\ LET c == calls[call]
           record_id == c.conflict.record_id
       IN  records' =
             IF record_id \in DOMAIN records
             THEN [records EXCEPT ![record_id].mapped_data =
                     ResolvedData(c.conflict, c.resolution, c.manual_value,
                                  c.mapped_data)]
             ELSE records
    /\ calls' = [calls EXCEPT ![call].pc = "count", ![call].mapped_data = << >>]
    /\ UNCHANGED <<carriers, agents, uploads, conflicts, payouts, jobs, last>>

\* lines 1073-1077: count_documents of the record's pending Conflicts
resolve_count(call) ==
    /\ Resolving(call, "count")
    /\ calls' = [calls EXCEPT ![call].pc =
          IF Remaining(conflicts, calls[call].conflict.record_id) = 0
          THEN "status" ELSE "return"]
    /\ UNCHANGED <<store, jobs, last>>

\* lines 1079-1083: no pending Conflict was counted, the record is set pending
resolve_status(call) ==
    /\ Resolving(call, "status")
    /\ records' = SetRecordStatus(records, calls[call].conflict.record_id, "pending")
    /\ calls' = [calls EXCEPT ![call].pc = "return"]
    /\ UNCHANGED <<carriers, agents, uploads, conflicts, payouts, jobs, last>>

\* line 1085
resolve_return(call) ==
    /\ Resolving(call, "return")
    /\ calls' = [c \in DOMAIN calls \ {call} |-> calls[c]]
    /\ last' = Reply("resolve_conflict", 200)
    /\ UNCHANGED <<store, jobs>>

----------------------------------------------------------------------------
(* Payout Generator *)

Amounts == 0..200

\* float(v) of an int or of a str that spells one
Float(v) == IF IsInt(v) THEN v.int ELSE CHOOSE n \in Amounts : IntToStr(n) = v.str

\* a or b or c
Or3(a, b, c) == IF Truthy(a) THEN a ELSE IF Truthy(b) THEN b ELSE c

\* lines 1107-1111: the agent found for the row, "" when none
FindAgent(ags, mapped) ==
    LET agent_code == Or3(Get(mapped, "agent_code"), Get(mapped, "agent_id"),
                          Get(mapped, "producer_code"))
        found == IF Truthy(agent_code)
                 THEN {a \in DOMAIN ags : ags[a].agent_code = Str(agent_code)}
                 ELSE {}
    IN  IF found = {} THEN "" ELSE CHOOSE a \in found : TRUE

\* line 1113
Amount(mapped) ==
    LET v == Or3(Get(mapped, "amount"), Get(mapped, "premium"),
                 Or3(Get(mapped, "payout_amount"), PyInt(0), PyInt(0)))
    IN  Float(v)

\* Commission dividing the rate as a whole number first
Commission_WholeRate(amount, commission_rate) ==
    amount * (commission_rate \div 100) * 100

\* line 1115: amount * (commission_rate / 100), counted in hundredths of the
\* unit of amount, so that no fraction is dropped
Commission(amount, commission_rate) == amount * commission_rate

\* lines 1104-1147: the payout of a validated record; st holds the three
\* collections the loop writes
PayOne(st, record_id) ==
    LET record == st.records[record_id]
        mapped == record.mapped_data
        agent == FindAgent(st.agents, mapped)
        amount == Amount(mapped)
        commission_rate == IF agent # "" THEN st.agents[agent].commission_rate ELSE 0
        payout_doc == [ record_id |-> record_id, agent_id |-> agent,
                        carrier_id |-> record.carrier_id, amount |-> amount,
                        commission |-> Commission(amount, commission_rate),
                        status |-> "pending" ]
    IN  [ payouts |-> Put(st.payouts, NewId(st.payouts), payout_doc),
          agents |-> IF agent # ""
                     THEN [st.agents EXCEPT ![agent].total_payouts = @ + amount]
                     ELSE st.agents,
          records |-> SetRecordStatus(st.records, record_id, "processed") ]

\* GenerateOne with the status filter of line 1100 left out
GenerateOne_AnyStatus(st, record_id) ==
    IF record_id \in DOMAIN st.records THEN PayOne(st, record_id) ELSE st

\* lines 1100-1102: one turn of the loop over record_ids
GenerateOne(st, record_id) ==
    IF record_id \in DOMAIN st.records /\ st.records[record_id].status = "validated"
    THEN PayOne(st, record_id)
    ELSE st

RECURSIVE GenerateAll(_, _, _)
GenerateAll(st, record_ids, i) ==
    IF i > Len(record_ids) THEN st
    ELSE GenerateAll(GenerateOne(st, record_ids[i]), record_ids, i + 1)

MaxIds == 2     \* ids in one generate_payouts request

IdLists(max_ids) == UNION {[1..n -> RecordIds] : n \in 1..max_ids}

\* lines 1091-1149
generate_payouts(record_ids) ==
    LET st == GenerateAll([payouts |-> payouts, agents |-> agents, records |-> records],
                          record_ids, 1)
    IN  /\ Cardinality(DOMAIN st.payouts) <= MaxPayouts
        /\ payouts' = st.payouts
        /\ agents' = st.agents
        /\ records' = st.records
        /\ last' = Reply("generate_payouts", 200)
        /\ UNCHANGED <<carriers, uploads, conflicts, jobs, calls>>

----------------------------------------------------------------------------
(* Payout Generator, await by await: the requests of generate_payouts that  *)
(* run at the same time take turns at each await of the loop               *)

NoDoc == << >>

\* the ids a generate_payouts request of the race lists: stored records
RaceLists(max_ids) == UNION {[1..n -> DOMAIN records] : n \in 1..max_ids}

\* lines 1091-1097: the request starts its loop
generate_begin(call, record_ids) ==
    /\ DOMAIN jobs = {}
    /\ call \notin DOMAIN calls
    /\ calls' = Put(calls, call,
            [ op |-> "generate_payouts", record_ids |-> record_ids, i |-> 1,
              pc |-> "find", record |-> NoDoc, agent |-> "", agent_doc |-> NoDoc ])
    /\ UNCHANGED <<store, jobs, last>>

InLoop(call, pc) ==
    /\ call \in DOMAIN calls
    /\ calls[call].op = "generate_payouts"
    /\ calls[call].pc = pc
    /\ calls[call].i <= Len(calls[call].record_ids)

\* lines 1099-1102: find_one({"id": record_id, "status": "validated"})
generate_find(call) ==
    /\ InLoop(call, "find")
    /\ LET record_id == calls[call].record_ids[calls[call].i]
       IN  IF record_id \in DOMAIN records /\ records[record_id].status = "validated"
           THEN calls' = [calls EXCEPT ![call].record = records[record_id],
                                       ![call].pc = "agent"]
           ELSE calls' = [calls EXCEPT ![call].i = @ + 1]
    /\ UNCHANGED <<store, jobs, last>>

\* lines 1104-1115: the carrier and the agent are read; the carrier changes
\* nothing of what is written
generate_agent(call) ==
    /\ InLoop(call, "agent")
    /\ LET agent == FindAgent(agents, calls[call].record.mapped_data)
       IN  calls' = [calls EXCEPT ![call].agent = agent,
                                  ![call].agent_doc = IF agent # "" THEN agents[agent]
                                                      ELSE NoDoc,
                                  ![call].pc = "insert"]
    /\ UNCHANGED <<store, jobs, last>>

\* lines 1117-1133: payouts.insert_one(payout_doc)
generate_insert(call) ==
    /\ InLoop(call, "insert")
    /\ Cardinality(DOMAIN payouts) < MaxPayouts
    /\ LET c == calls[call]
           amount == Amount(c.record.mapped_data)
           commission_rate == IF c.agent # "" THEN c.agent_doc.commission_rate ELSE 0
       IN  payouts' = Put(payouts, NewId(payouts),
                [ record_id |-> c.record_ids[c.i], agent_id |-> c.agent,
                  carrier_id |-> c.record.carrier_id, amount |-> amount,
                  commission |-> Commission(amount, commission_rate),
                  status |-> "pending" ])
    /\ calls' = [calls EXCEPT ![call].pc = IF calls[call].agent # "" THEN "inc" ELSE "mark"]
    /\ UNCHANGED <<carriers, agents, uploads, records, conflicts, jobs, last>>

\* generate_inc writing back the total it read with the agent
generate_inc_ReadModifyWrite(call) ==
    /\ InLoop(call, "inc")
    /\ LET c == calls[call]
       IN  agents' = IF c.agent \in DOMAIN agents
                     THEN [agents EXCEPT ![c.agent].total_payouts =
                             c.agent_doc.total_payouts + Amount(c.record.mapped_data)]
                     ELSE agents
    /\ calls' = [calls EXCEPT ![call].pc = "mark"]
    /\ UNCHANGED <<carriers, uploads, records, conflicts, payouts, jobs, last>>

\* lines 1136-1141: update_one({"id": agent["id"]}, {"$inc": {"total_payouts": amount}})
generate_inc(call) ==
    /\ InLoop(call, "inc")
    /\ LET c == calls[call]
       IN  agents' = IF c.agent \in DOMAIN agents
                     THEN [agents EXCEPT ![c.agent].total_payouts =
                             @ + Amount(c.record.mapped_data)]
                     ELSE agents
    /\ calls' = [calls EXCEPT ![call].pc = "mark"]
    /\ UNCHANGED <<carriers, uploads, records, conflicts, payouts, jobs, last>>

\* lines 1143-1147: the record is marked processed, the loop goes on
generate_mark(call) ==
    /\ InLoop(call, "mark")
    /\ records' = SetRecordStatus(records, calls[call].record_ids[calls[call].i],
                                  "processed")
    /\ calls' = [calls EXCEPT ![call].i = @ + 1, ![call].pc = "find",
                               ![call].record = NoDoc, ![call].agent = "",
                               ![call].agent_doc = NoDoc]
    /\ UNCHANGED <<carriers, agents, uploads, conflicts, payouts, jobs, last>>

\* line 1149: the loop is over, the message is returned
generate_return(call) ==
    /\ call \in DOMAIN calls
    /\ calls[call].op = "generate_payouts"
    /\ calls[call].i > Len(calls[call].record_ids)
    /\ calls' = [c \in DOMAIN calls \ {call} |-> calls[c]]
    /\ last' = Reply("generate_payouts", 200)
    /\ UNCHANGED <<store, jobs>>

PayoutIds == DOMAIN payouts \cup {NewId(payouts)}

\* lines 1166-1174: the payout is set to completed; the answer is 404 when
\* update_one modified no document, which is when no payout has the id and
\* also when the payout that has it is completed already
complete_payout(payout_id) ==
    LET modified_count ==
            IF /\ payout_id \in DOMAIN payouts
               /\ payouts[payout_id].status # "completed"
            THEN 1 ELSE 0
    IN  /\ payouts' = IF payout_id \in DOMAIN payouts
                      THEN [payouts EXCEPT ![payout_id].status = "completed"]
                      ELSE payouts
        /\ last' = Reply("complete_payout", IF modified_count = 0 THEN 404 ELSE 200)
        /\ UNCHANGED <<carriers, agents, uploads, records, conflicts, jobs, calls>>

----------------------------------------------------------------------------
(* Agents *)

AgentIds == DOMAIN agents \cup {"a0"}

\* AgentCreate bodies (lines 96-102); the fields the model keeps of an agent
AgentBodies ==
    { [name |-> "Ann", agent_code |-> "A1", commission_rate |-> 20],
      [name |-> "Bob", agent_code |-> "A2", commission_rate |-> 10] }

\* lines 411-419: $set of the fields of the body
update_agent(agent_id, agent) ==
    IF agent_id \notin DOMAIN agents
    THEN /\ last' = Reply("update_agent", 404)
         /\ UNCHANGED <<store, jobs, calls>>
    ELSE /\ agents' = [agents EXCEPT ![agent_id] =
                [f \in DOMAIN @ \cup DOMAIN agent |->
                    IF f \in DOMAIN agent THEN agent[f] ELSE @[f]]]
         /\ last' = Reply("update_agent", 200)
         /\ UNCHANGED <<carriers, uploads, records, conflicts, payouts, jobs, calls>>

(* Carriers *)

\* the ids a carrier request can name: the stored carriers and one of none
CarrierRefs == DOMAIN carriers \cup {"c0"}

\* str(uuid.uuid4()) for a carrier: the ids that new carriers get
FreshCarrierIds == {"c8", "c9"} \ DOMAIN carriers

\* CarrierCreate bodies (lines 69-79): the layouts of the model, and the
\* second one under the code of the first
CarrierBodies == {Carrier1, Carrier2, [Carrier2 EXCEPT !.code = "ALPHA"]}

\* lines 271-286
create_carrier(carrier) ==
    IF \E c \in DOMAIN carriers : carriers[c].code = carrier.code
    THEN /\ last' = Reply("create_carrier", 400)
         /\ UNCHANGED <<store, jobs, calls>>
    ELSE /\ FreshCarrierIds # {}
         /\ \E carrier_id \in FreshCarrierIds :
               carriers' = Put(carriers, carrier_id, carrier)
         /\ last' = Reply("create_carrier", 200)
         /\ UNCHANGED <<agents, uploads, records, conflicts, payouts, jobs, calls>>

\* lines 300-311: $set of every field of the body
update_carrier(carrier_id, carrier) ==
    IF carrier_id \notin DOMAIN carriers
    THEN /\ last' = Reply("update_carrier", 404)
         /\ UNCHANGED <<store, jobs, calls>>
    ELSE /\ carriers' = [carriers EXCEPT ![carrier_id] =
                [f \in DOMAIN @ \cup DOMAIN carrier |->
                    IF f \in DOMAIN carrier THEN carrier[f] ELSE @[f]]]
         /\ last' = Reply("update_carrier", 200)
         /\ UNCHANGED <<agents, uploads, records, conflicts, payouts, jobs, calls>>

\* lines 330-335
delete_carrier(carrier_id) ==
    IF carrier_id \notin DOMAIN carriers
    THEN /\ last' = Reply("delete_carrier", 404)
         /\ UNCHANGED <<store, jobs, calls>>
    ELSE /\ carriers' = [c \in DOMAIN carriers \ {carrier_id} |-> carriers[c]]
         /\ last' = Reply("delete_carrier", 200)
         /\ UNCHANGED <<agents, uploads, records, conflicts, payouts, jobs, calls>>

(* Tabular extractor *)

\* the rows the header scan covers, the columns it counts in, and the cells
\* that make a header
ScanRows == 20
ScanCols == 50
HeaderCells == 5
DataCells == 3

\* min(a, b)
Min(a, b) == IF a <= b THEN a ELSE b

\* range(a, b)
PyRange(a, b) == a .. (b - 1)

\* s.strip(), over the cell texts of the model
Strip(s) == IF s = " " THEN "" ELSE s

\* the sheets of the model: the rows of dense hold a number in five columns
\* from first on; every other row holds a title in column 1 and a blank text
\* in column 2
Sheets ==
    {[max_row |-> m, max_column |-> n, dense |-> d, first |-> f] :
        m \in {1, 2, MaxSheetRows - 2, MaxSheetRows - 1, MaxSheetRows},
        n \in {HeaderCells, MaxSheetCols - 2, MaxSheetCols - 1, MaxSheetCols},
        d \in SUBSET {1, 2, MaxSheetRows - 2, MaxSheetRows - 1, MaxSheetRows},
        f \in {1, 2, MaxSheetCols - 6, MaxSheetCols - 5, MaxSheetCols - 4}}

\* the sheets whose dense rows and columns are rows and columns of the sheet
WellFormed(sheet) ==
    /\ \A r \in sheet.dense : r <= sheet.max_row
    /\ Cardinality(sheet.dense) <= 2
    /\ sheet.first + HeaderCells - 1 <= sheet.max_column

\* sheet.cell(row=row, column=col).value
Cell(sheet, row, col) ==
    IF row \in sheet.dense
    THEN IF col \in sheet.first .. sheet.first + HeaderCells - 1
         THEN PyInt(col) ELSE None
    ELSE IF row > sheet.max_row THEN None
    ELSE IF col = 1 THEN PyStr("Statement")
    ELSE IF col = 2 THEN PyStr(" ")
    ELSE None

\* line 444: v is not None and str(v).strip()
NonEmpty(v) == ~IsNone(v) /\ Strip(Str(v)) # ""

\* lines 441-450: the first scanned row with enough non-empty cells, else 1
DetectHeader(sheet) ==
    LET hits == {row_idx \in PyRange(1, Min(ScanRows, sheet.max_row + 1)) :
                    Cardinality({col \in PyRange(1, Min(ScanCols, sheet.max_column + 1)) :
                                    NonEmpty(Cell(sheet, row_idx, col))})
                       >= HeaderCells}
    IN  IF hits = {} THEN 1 ELSE CHOOSE r \in hits : \A x \in hits : r <= x

\* lines 456-458: the header of each column
Headers(sheet, header_row) ==
    [col \in 1..sheet.max_column |->
        LET val == Cell(sheet, header_row, col)
        IN  IF Truthy(val) THEN Strip(Str(val)) ELSE "column_" \o IntToStr(col)]

\* the column whose cell a header keeps: the last one of that header
LastColumn(headers) ==
    [h \in {headers[i] : i \in DOMAIN headers} |->
        Max({i \in DOMAIN headers : headers[i] = h})]

\* lines 468-476: the cells of the row under their headers, a later column
\* replacing an earlier one of the same header
RowData(sheet, column, row_idx) ==
    [h \in DOMAIN column |-> Cell(sheet, row_idx, column[h])]

\* lines 461-481: the rows from start_row on that hold at least three values
RECURSIVE DataRows(_, _, _)
DataRows(sheet, column, row_idx) ==
    IF row_idx > sheet.max_row THEN << >>
    ELSE LET row_data == RowData(sheet, column, row_idx)
             non_null_count ==
                 Cardinality({h \in DOMAIN row_data : ~IsNone(row_data[h])})
         IN  (IF non_null_count >= DataCells THEN <<row_data>> ELSE << >>)
                \o DataRows(sheet, column, row_idx + 1)

\* the header_row and data_start_row a carrier can configure for the sheet
RowConfigs(sheet) == {None} \cup {PyInt(r) : r \in 1..Min(2, sheet.max_row)}

\* create_upload calls extract_excel_data on the sheet of the file
extract_begin(call, sheet, header_row, start_row) ==
    /\ Idle
    /\ calls' = Put(calls, call,
          [ op |-> "extract_excel_data", pc |-> "header", sheet |-> sheet,
            configured |-> [header_row |-> header_row, start_row |-> start_row],
            header_row |-> header_row, start_row |-> start_row, data |-> << >> ])
    /\ UNCHANGED <<store, jobs, last>>

Extracting(call, pc) ==
    /\ call \in DOMAIN calls
    /\ calls[call].op = "extract_excel_data"
    /\ calls[call].pc = pc

\* lines 440-453: the header row and the start row
extract_header(call) ==
    /\ Extracting(call, "header")
    /\ LET c == calls[call]
           header_row == IF IsNone(c.header_row) THEN PyInt(DetectHeader(c.sheet))
                         ELSE c.header_row
           start_row == IF IsNone(c.start_row) THEN PyInt(header_row.int + 1)
                        ELSE c.start_row
       IN  calls' = [calls EXCEPT ![call] =
               [@ EXCEPT !.header_row = header_row, !.start_row = start_row,
                         !.pc = "rows"]]
    /\ UNCHANGED <<store, jobs, last>>

\* lines 455-481: the headers and the data rows
extract_rows(call) ==
    /\ Extracting(call, "rows")
    /\ LET c == calls[call]
           headers == Headers(c.sheet, c.header_row.int)
       IN  \E column \in {LastColumn(headers)} :
             calls' = [calls EXCEPT ![call] =
                [@ EXCEPT !.data = DataRows(c.sheet, column, c.start_row.int),
                          !.pc = "return"]]
    /\ UNCHANGED <<store, jobs, last>>

\* line 483
extract_return(call) ==
    /\ Extracting(call, "return")
    /\ calls' = [x \in DOMAIN calls \ {call} |-> calls[x]]
    /\ UNCHANGED <<store, jobs, last>>

(* Export *)

Formats == {"csv", "json", "zoho"}

\* the carrier_id parameter: "" when the caller gives none
CarrierFilters == {"", "c1", "c2"}

\* the ids of a set in the order the store returns their documents
RECURSIVE InOrder(_)
InOrder(ids) ==
    IF ids = {} THEN << >>
    ELSE LET m == CHOOSE x \in ids : \A y \in ids : x <= y
         IN  <<m>> \o InOrder(ids \ {m})

\* ExportQuery without the status filter
ExportQuery_AnyStatus(carrier_id) ==
    InOrder({r \in DOMAIN records :
                carrier_id # "" => records[r].carrier_id = carrier_id})

\* lines 950-954: the validated records, of the carrier when one is given
ExportQuery(carrier_id) ==
    InOrder({r \in DOMAIN records :
                /\ records[r].status = "validated"
                /\ carrier_id # "" => records[r].carrier_id = carrier_id})

\* sorted(...) over the field names of the model
SortedKeys == <<"agent_code", "agent_id", "amount", "policy_number", "record">>

\* lines 959-965: the non-reserved fields of the exported records, sorted
ExportFields(ids) ==
    SelectSeq(SortedKeys, LAMBDA k :
        \E i \in DOMAIN ids : k \in DOMAIN records[ids[i]].mapped_data)

\* lines 970-974
JsonRow(r, fields) ==
    [f \in {"_record_id"} \cup {fields[i] : i \in DOMAIN fields} |->
        IF f = "_record_id" THEN r ELSE Get(records[r].mapped_data, f)]

\* a or b
Or(a, b) == IF Truthy(a) THEN a ELSE b

\* d.get(k, default)
GetOr(d, k, default) == IF k \in DOMAIN d THEN d[k] ELSE default

\* lines 981-1008: the columns of the target schema that the fields of the
\* model reach, and the fixed ones
ZohoRow(mapped) ==
    [ AC_Account_Number |->
          Or(Get(mapped, "broker_id"), GetOr(mapped, "agent_code", PyStr(""))),
      Total_WP |->
          Or3(Get(mapped, "total_wp"), Get(mapped, "premium"),
              GetOr(mapped, "amount", PyStr(""))),
      Account_Type |-> "Brokers - Member",
      Record_Source |-> "Rev-Box Import" ]

\* lines 1024-1029
CsvRow(mapped, fields) ==
    [f \in {fields[i] : i \in DOMAIN fields} |->
        IF IsNone(Get(mapped, f)) THEN "" ELSE Str(mapped[f])]

\* export_approved_data that answers an empty export when nothing is validated
export_approved_data_Empty(format, carrier_id) ==
    LET ids == ExportQuery(carrier_id)
        fields == ExportFields(ids)
        data == [i \in DOMAIN ids |->
                    CASE format = "json" -> JsonRow(ids[i], fields)
                      [] format = "zoho" -> ZohoRow(records[ids[i]].mapped_data)
                      [] OTHER -> CsvRow(records[ids[i]].mapped_data, fields)]
    IN  /\ last' = IF last.op = "off" THEN last
                   ELSE [ op |-> "export_approved_data", code |-> 200,
                          format |-> format, carrier_id |-> carrier_id,
                          fields |-> fields, count |-> Len(ids), data |-> data ]
        /\ UNCHANGED <<store, jobs, calls>>

\* lines 943-1035: a read of the store; the response carries the rows
export_approved_data(format, carrier_id) ==
    LET ids == ExportQuery(carrier_id)
        fields == ExportFields(ids)
        data == [i \in DOMAIN ids |->
                    CASE format = "json" -> JsonRow(ids[i], fields)
                      [] format = "zoho" -> ZohoRow(records[ids[i]].mapped_data)
                      [] OTHER -> CsvRow(records[ids[i]].mapped_data, fields)]
    IN  /\ last' = IF last.op = "off" THEN last
                   ELSE IF ids = << >> THEN Reply("export_approved_data", 404)
                   ELSE [ op |-> "export_approved_data", code |-> 200,
                          format |-> format, carrier_id |-> carrier_id,
                          fields |-> fields, count |-> Len(ids), data |-> data ]
        /\ UNCHANGED <<store, jobs, calls>>

(* Upload deletion *)

UploadIds == DOMAIN uploads \cup {MaxUploads + 1}

\* the documents of a collection that are not of the upload
NotOf(docs, upload_id) ==
    [d \in {x \in DOMAIN docs : docs[x].upload_id # upload_id} |-> docs[d]]

\* delete_upload that leaves the Conflicts of the upload in the store
delete_upload_KeepConflicts(upload_id) ==
    IF upload_id \notin DOMAIN uploads
    THEN /\ last' = Reply("delete_upload", 404)
         /\ UNCHANGED <<store, jobs, calls>>
    ELSE /\ records' = NotOf(records, upload_id)
         /\ uploads' = [u \in DOMAIN uploads \ {upload_id} |-> uploads[u]]
         /\ last' = Reply("delete_upload", 200)
         /\ UNCHANGED <<carriers, agents, conflicts, payouts, jobs, calls>>

\* lines 743-770: the Conflicts and the records that carry the upload's id
\* are deleted, then the upload
delete_upload(upload_id) ==
    IF upload_id \notin DOMAIN uploads
    THEN /\ last' = Reply("delete_upload", 404)
         /\ UNCHANGED <<store, jobs, calls>>
    ELSE /\ conflicts' = NotOf(conflicts, upload_id)
         /\ records' = NotOf(records, upload_id)
         /\ uploads' = [u \in DOMAIN uploads \ {upload_id} |-> uploads[u]]
         /\ last' = Reply("delete_upload", 200)
         /\ UNCHANGED <<carriers, agents, payouts, jobs, calls>>

\* delete_upload between its awaits.
\* lines 743-744: the request arrives
delete_begin(call, upload_id) ==
    /\ call \notin DOMAIN calls
    /\ calls' = Put(calls, call,
            [op |-> "delete_upload", upload_id |-> upload_id, pc |-> "find"])
    /\ UNCHANGED <<store, jobs, last>>

Deleting(call, pc) ==
    /\ call \in DOMAIN calls
    /\ calls[call].op = "delete_upload"
    /\ calls[call].pc = pc

\* lines 746-748: find_one({"id": upload_id}), 404 when there is none
delete_find(call) ==
    /\ Deleting(call, "find")
    /\ IF calls[call].upload_id \notin DOMAIN uploads
       THEN /\ calls' = [c \in DOMAIN calls \ {call} |-> calls[c]]
            /\ last' = Reply("delete_upload", 404)
       ELSE /\ calls' = [calls EXCEPT ![call].pc = "conflicts"]
            /\ UNCHANGED last
    /\ UNCHANGED <<store, jobs>>

\* line 751: conflicts.delete_many({"upload_id": upload_id})
delete_conflicts(call) ==
    /\ Deleting(call, "conflicts")
    /\ conflicts' = NotOf(conflicts, calls[call].upload_id)
    /\ calls' = [calls EXCEPT ![call].pc = "records"]
    /\ UNCHANGED <<carriers, agents, uploads, records, payouts, jobs, last>>

\* line 754: extracted_records.delete_many({"upload_id": upload_id})
delete_records(call) ==
    /\ Deleting(call, "records")
    /\ records' = NotOf(records, calls[call].upload_id)
    /\ calls' = [calls EXCEPT ![call].pc = "upload"]
    /\ UNCHANGED <<carriers, agents, uploads, conflicts, payouts, jobs, last>>

\* line 757: uploads.delete_one({"id": upload_id})
delete_doc(call) ==
    /\ Deleting(call, "upload")
    /\ uploads' = [u \in DOMAIN uploads \ {calls[call].upload_id} |-> uploads[u]]
    /\ calls' = [calls EXCEPT ![call].pc = "return"]
    /\ UNCHANGED <<carriers, agents, records, conflicts, payouts, jobs, last>>

\* lines 759-770: the file is removed and the request answered
delete_return(call) ==
    /\ Deleting(call, "return")
    /\ calls' = [c \in DOMAIN calls \ {call} |-> calls[c]]
    /\ last' = Reply("delete_upload", 200)
    /\ UNCHANGED <<store, jobs>>

----------------------------------------------------------------------------

InitStore ==
    /\ carriers = [c \in CarrierIds |->
                      CASE c = "c1" -> Carrier1 [] c = "c2" -> Carrier2 [] c = "c3" -> Carrier3]
    /\ agents = [a \in {"a1"} |-> Agent1]
    /\ uploads = << >>
    /\ records = << >>
    /\ conflicts = << >>
    /\ payouts = << >>
    /\ jobs = NoJob
    /\ calls = << >>

Init == InitStore /\ last = [op |-> "off", code |-> 0]

\* the requests, with their inputs drawn from the given sets; a request other
\* than the row loop of an upload is served when no upload is running
Requests(carrier_ids, filenames, rows, resolutions, max_ids) ==
    \/ \E c \in carrier_ids \cup {"c0"}, f \in filenames :
          Idle /\ create_upload_reject(c, f)
    \/ \E c \in carrier_ids, f \in filenames, rs \in RowSeqs(rows) :
          Idle /\ create_upload_start(c, f, rs)
    \/ \E u \in DOMAIN jobs : create_upload_row(u)
    \/ \E u \in DOMAIN jobs : create_upload_finish(u)
    \/ \E r \in RecordIds : Idle /\ validate_record(r)
    \/ \E r \in RecordIds : Idle /\ reject_record(r)
    \/ \E c \in ConflictIds, res \in resolutions :
          Idle /\ resolve_conflict(c, res[1], res[2])
    \/ \E ids \in IdLists(max_ids) : Idle /\ generate_payouts(ids)

\* the record lifecycle: every request, on the rows of one carrier
Next == Requests({"c1"}, OneFile, {RowB, RowD}, Resolutions, MaxIds)

Spec == Init /\ [][Next]_vars

\* ingestion: every carrier and every row, the other requests moving the
\* stored records through their statuses
NextDetect == Requests(CarrierIds, OneFile, RawRows, {<<"keep_current", None>>}, 1)

SpecDetect == Init /\ [][NextDetect]_vars

\* the requests with their responses recorded, on files of every name that
\* hold the one row that collides with itself, and the uploads that fail
InitReply == InitStore /\ last = [op |-> "none", code |-> 0]

NextReply ==
    \/ Requests({"c1"}, Filenames, {RowB}, {<<"keep_current", None>>}, MaxIds)
    \/ \E u \in DOMAIN jobs, stored \in 0..Len(KeyOrder) : create_upload_except(u, stored)

SpecReply == InitReply /\ [][NextReply]_vars

\* the agents' totals: the requests on a statement row and a chargeback of
\* the same agent, and the agent edited in between
NextAgents ==
    \/ Requests({"c1"}, OneFile, {RowB, RowF}, {<<"keep_current", None>>}, MaxIds)
    \/ \E a \in AgentIds, agent \in AgentBodies : Idle /\ update_agent(a, agent)

SpecAgents == Init /\ [][NextAgents]_vars

\* the raw payload: the carriers are the agent-aware layout and the layout
\* that maps a column to _raw, and every resolution is requested
InitRaw ==
    /\ carriers = [c \in {"c1", "c4"} |-> IF c = "c1" THEN Carrier1 ELSE Carrier4]
    /\ agents = [a \in {"a1"} |-> Agent1]
    /\ uploads = << >>
    /\ records = << >>
    /\ conflicts = << >>
    /\ payouts = << >>
    /\ jobs = NoJob
    /\ calls = << >>
    /\ last = [op |-> "off", code |-> 0]

NextRaw == Requests({"c1", "c4"}, OneFile, {RowB, RowD}, Resolutions, 1)

SpecRaw == InitRaw /\ [][NextRaw]_vars

\* export: rows of two carriers move through the statuses, and the approved
\* data is exported in between
NextExport ==
    \/ Requests({"c1", "c2"}, OneFile, {RowB, RowC}, {<<"keep_current", None>>}, 1)
    \/ \E format \in Formats, c \in CarrierFilters :
          Idle /\ export_approved_data(format, c)

SpecExport == InitReply /\ [][NextExport]_vars

\* the rows that the running uploads have still to store
RECURSIVE RowsLeft(_)
RowsLeft(running) ==
    IF running = {} THEN 0
    ELSE LET u == CHOOSE x \in running : TRUE
         IN  Len(jobs[u].extracted_data) - jobs[u].idx + 1 + RowsLeft(running \ {u})

\* uploads under concurrency: up to MaxUploads uploads of one carrier, which
\* take turns at the awaits of their row loops
NextUploadRace ==
    \/ \E f \in OneFile, rs \in RowSeqs({RowB, RowC, RowD}) :
          /\ NewRecordId + RowsLeft(DOMAIN jobs) + Len(rs) - 1 <= MaxRaceRecords
          /\ create_upload_open("c1", f, rs)
    \/ \E u \in DOMAIN jobs : create_upload_detect(u)
    \/ \E u \in DOMAIN jobs : create_upload_store(u)
    \/ \E u \in DOMAIN jobs : create_upload_finish(u)

SpecUploadRace == Init /\ [][NextUploadRace]_vars

\* extraction: one sheet at a time is read, under each configuration
NextExtract ==
    \/ \E sheet \in {s \in Sheets : WellFormed(s)} :
          \E header_row, start_row \in RowConfigs(sheet) :
              extract_begin(1, sheet, header_row, start_row)
    \/ \E call \in DOMAIN calls : extract_header(call)
    \/ \E call \in DOMAIN calls : extract_rows(call)
    \/ \E call \in DOMAIN calls : extract_return(call)

SpecExtract == Init /\ [][NextExtract]_vars

\* files of another layout: rows that hold no mapped column are ingested
\* beside rows that do
NextBare == Requests({"c2"}, OneFile, {RowA, RowG}, {<<"keep_current", None>>}, 1)

SpecBare == Init /\ [][NextBare]_vars

\* attribution: the rows of the layout with two agent columns are uploaded,
\* validated and paid
InitAttrib ==
    /\ carriers = [c \in {"c5"} |-> Carrier5]
    /\ agents = [a \in {"a1"} |-> Agent1]
    /\ uploads = << >>
    /\ records = << >>
    /\ conflicts = << >>
    /\ payouts = << >>
    /\ jobs = NoJob
    /\ calls = << >>
    /\ last = [op |-> "off", code |-> 0]

NextAttrib == Requests({"c5"}, OneFile, {RowH, RowI}, {<<"keep_current", None>>}, MaxIds)

SpecAttrib == InitAttrib /\ [][NextAttrib]_vars

\* payouts: they are generated and completed, with the responses recorded
NextPayouts ==
    \/ Requests({"c1"}, OneFile, {RowB}, {<<"keep_current", None>>}, MaxIds)
    \/ \E p \in PayoutIds : Idle /\ complete_payout(p)

SpecPayouts == InitReply /\ [][NextPayouts]_vars

\* carriers: they are created, edited and deleted
NextCarriers ==
    \/ \E carrier \in CarrierBodies : Idle /\ create_carrier(carrier)
    \/ \E c \in CarrierRefs, carrier \in CarrierBodies : Idle /\ update_carrier(c, carrier)
    \/ \E c \in CarrierRefs : Idle /\ delete_carrier(c)

SpecCarriers == InitReply /\ [][NextCarriers]_vars

\* requests beside a running upload: the upload takes its row loop await by
\* await, and Conflicts are resolved and records rejected in between
NextIngestRace ==
    \/ \E f \in OneFile, rs \in RowSeqs({RowB, RowD}) :
          Idle /\ create_upload_start("c1", f, rs)
    \/ \E u \in DOMAIN jobs : create_upload_detect(u)
    \/ \E u \in DOMAIN jobs : create_upload_conflicts(u)
    \/ \E u \in DOMAIN jobs : create_upload_record(u)
    \/ \E u \in DOMAIN jobs : create_upload_finish(u)
    \/ \E c \in DOMAIN conflicts : resolve_conflict(c, "keep_current", None)
    \/ \E r \in {conflicts[c].record_id : c \in DOMAIN conflicts} : reject_record(r)

SpecIngestRace == Init /\ [][NextIngestRace]_vars

\* an upload is deleted while its rows are being stored: one upload at a
\* time, its row loop between its awaits, and delete_upload between its own
NextDeleteRace ==
    \/ \E f \in OneFile, rs \in RowSeqs({RowB, RowD}) :
          DOMAIN jobs = {} /\ create_upload_start("c1", f, rs)
    \/ \E u \in DOMAIN jobs : create_upload_detect(u)
    \/ \E u \in DOMAIN jobs : create_upload_conflicts(u)
    \/ \E u \in DOMAIN jobs : create_upload_record(u)
    \/ \E u \in DOMAIN jobs : create_upload_finish(u)
    \/ \E call \in CallIds, u \in DOMAIN uploads : delete_begin(call, u)
    \/ \E call \in CallIds : delete_find(call)
    \/ \E call \in CallIds : delete_conflicts(call)
    \/ \E call \in CallIds : delete_records(call)
    \/ \E call \in CallIds : delete_doc(call)
    \/ \E call \in CallIds : delete_return(call)

SpecDeleteRace == Init /\ [][NextDeleteRace]_vars

\* deletion: the requests of the record lifecycle with their responses
\* recorded, and uploads deleted in between
NextDelete ==
    \/ Requests({"c1"}, OneFile, {RowB, RowD},
                {<<"keep_current", None>>, <<"accept_new", None>>}, 1)
    \/ \E u \in UploadIds : Idle /\ delete_upload(u)

SpecDelete == InitReply /\ [][NextDelete]_vars

\* payout generation under concurrency: two rows of one agent are uploaded
\* and validated, each once, and up to MaxCalls generate_payouts requests run
\* at the same time
NextPayRace ==
    \/ \E f \in OneFile, rs \in RowSeqs({RowA, RowB}) :
          Idle /\ create_upload_start("c1", f, rs)
    \/ \E u \in DOMAIN jobs : create_upload_row(u)
    \/ \E u \in DOMAIN jobs : create_upload_finish(u)
    \/ \E r \in DOMAIN records :
          /\ Idle
          /\ records[r].status \in {"pending", "conflict"}
          /\ validate_record(r)
    \/ \E call \in CallIds, ids \in RaceLists(MaxIds) : generate_begin(call, ids)
    \/ \E call \in DOMAIN calls : generate_find(call)
    \/ \E call \in DOMAIN calls : generate_agent(call)
    \/ \E call \in DOMAIN calls : generate_insert(call)
    \/ \E call \in DOMAIN calls : generate_inc(call)
    \/ \E call \in DOMAIN calls : generate_mark(call)
    \/ \E call \in DOMAIN calls : generate_return(call)

SpecPayRace == Init /\ [][NextPayRace]_vars

\* conflict resolution under concurrency: a row is uploaded that conflicts on
\* two fields, and up to MaxCalls resolve_conflict requests run at the same
\* time, each naming a Conflict that is pending when it arrives, or none
NextResolveRace ==
    \/ \E f \in OneFile, rs \in {<<RowD, RowB>>, <<RowB, RowD>>} :
          Idle /\ create_upload_start("c1", f, rs)
    \/ \E u \in DOMAIN jobs : create_upload_row(u)
    \/ \E u \in DOMAIN jobs : create_upload_finish(u)
    \/ \E call \in CallIds, c \in ConflictIds, res \in Resolutions :
          /\ c \in DOMAIN conflicts => conflicts[c].status = "pending"
          /\ resolve_begin(call, c, res[1], res[2])
    \/ \E call \in DOMAIN calls : resolve_find(call)
    \/ \E call \in DOMAIN calls : resolve_update(call)
    \/ \E call \in DOMAIN calls : resolve_read(call)
    \/ \E call \in DOMAIN calls : resolve_write(call)
    \/ \E call \in DOMAIN calls : resolve_count(call)
    \/ \E call \in DOMAIN calls : resolve_status(call)
    \/ \E call \in DOMAIN calls : resolve_return(call)

SpecResolveRace == Init /\ [][NextResolveRace]_vars

----------------------------------------------------------------------------
(* Properties *)

Range(seq) == {seq[i] : i \in DOMAIN seq}

PayoutsOf(pays, record_id) == {p \in DOMAIN pays : pays[p].record_id = record_id}

ConflictsOf(confs, record_id) == {c \in DOMAIN confs : confs[c].record_id = record_id}

RECURSIVE SumAmounts(_, _)
SumAmounts(recs, ids) ==
    IF ids = {} THEN 0
    ELSE LET r == CHOOSE x \in ids : TRUE
         IN  Amount(recs[r].mapped_data) + SumAmounts(recs, ids \ {r})

\* the validated records among the ids of a request
ValidatedIn(record_ids) ==
    {r \in Range(record_ids) \cap DOMAIN records : records[r].status = "validated"}

\* C1: a generate_payouts request creates exactly one Payout for each record of
\* its list that is validated, however often the id is listed, adds the amount
\* to the resolved agent's total_payouts once, and leaves a store on which the
\* same request, made again, changes nothing.
C1_GenerateOnce ==
    [][\A ids \in IdLists(MaxIds) :
        (payouts' # payouts /\ generate_payouts(ids)) =>
          LET paid == ValidatedIn(ids)
              after == [payouts |-> payouts', agents |-> agents', records |-> records']
          IN  /\ \A r \in paid :
                    /\ Cardinality(PayoutsOf(payouts', r))
                         = Cardinality(PayoutsOf(payouts, r)) + 1
                    /\ records'[r].status = "processed"
              /\ Cardinality(DOMAIN payouts') = Cardinality(DOMAIN payouts) + Cardinality(paid)
              /\ \A a \in DOMAIN agents :
                    agents'[a].total_payouts = agents[a].total_payouts
                        + SumAmounts(records,
                            {r \in paid : FindAgent(agents, records[r].mapped_data) = a})
              /\ GenerateAll(after, ids, 1) = after
    ]_vars

\* C1 witness: a processed record with one Payout, whose amount is the whole
\* of its agent's total_payouts
C1_Witness ==
    \E r \in DOMAIN records, p \in DOMAIN payouts :
        /\ records[r].status = "processed"
        /\ PayoutsOf(payouts, r) = {p}
        /\ payouts[p].agent_id = "a1"
        /\ payouts[p].amount > 0
        /\ agents["a1"].total_payouts = payouts[p].amount

\* C2: at most one Payout exists per source record id.
C2_OnePayoutPerRecord ==
    \A r \in DOMAIN records : Cardinality(PayoutsOf(payouts, r)) <= 1

\* C3: a record in status conflict has a pending Conflict, and the
\* resolve_conflict that resolves the last pending Conflict of a record in
\* status conflict leaves the record pending.
C3_ResolvedAllThenPending ==
    /\ [](\A r \in DOMAIN records :
            records[r].status = "conflict" => Remaining(conflicts, r) > 0)
    /\ [][\A c \in DOMAIN conflicts :
            LET r == conflicts[c].record_id
            IN  ( /\ r \in DOMAIN records
                  /\ records[r].status = "conflict"
                  /\ \A d \in ConflictsOf(conflicts, r) \ {c} :
                        conflicts[d].status # "pending"
                  /\ \E res \in Resolutions : resolve_conflict(c, res[1], res[2]) )
                => records'[r].status = "pending"
       ]_vars

\* C3 witness: a record with two Conflicts, each resolved by a resolution, that
\* is pending
C3_Witness ==
    \E r \in DOMAIN records :
        /\ records[r].status = "pending"
        /\ Cardinality(ConflictsOf(conflicts, r)) = 2
        /\ \A c \in ConflictsOf(conflicts, r) :
              conflicts[c].status = "resolved" /\ conflicts[c].resolution # ""

\* C4: resolve_conflict on a Conflict whose record is pending, validated,
\* rejected or processed leaves the record's status unchanged.
C4_ResolveKeepsStatus ==
    [][\A c \in DOMAIN conflicts :
        LET r == conflicts[c].record_id
        IN  ( /\ r \in DOMAIN records
              /\ records[r].status # "conflict"
              /\ \E res \in Resolutions : resolve_conflict(c, res[1], res[2]) )
            => records'[r].status = records[r].status
    ]_vars

\* C5: validate_record on an existing record leaves it validated and each of
\* its Conflicts resolved, and changes no other record and no Conflict of
\* another record.
C5_Validate ==
    [][\A r \in DOMAIN records :
        validate_record(r) =>
          /\ records'[r].status = "validated"
          /\ \A c \in ConflictsOf(conflicts, r) : conflicts'[c].status = "resolved"
          /\ \A o \in DOMAIN records \ {r} : records'[o] = records[o]
          /\ \A c \in DOMAIN conflicts \ ConflictsOf(conflicts, r) :
                conflicts'[c] = conflicts[c]
          /\ DOMAIN records' = DOMAIN records
          /\ DOMAIN conflicts' = DOMAIN conflicts
    ]_vars

\* C5 witness: a validated record whose Conflicts were rejected before and are
\* resolved now, next to another record
C5_Witness ==
    \E r \in DOMAIN records, c \in DOMAIN conflicts :
        /\ records[r].status = "validated"
        /\ conflicts[c].record_id = r
        /\ conflicts[c].status = "resolved"
        /\ conflicts[c].resolution = ""
        /\ DOMAIN records # {r}

\* C6: reject_record on an existing record leaves it rejected and each of its
\* Conflicts rejected, and changes no other record and no Conflict of another
\* record.
C6_Reject ==
    [][\A r \in DOMAIN records :
        reject_record(r) =>
          /\ records'[r].status = "rejected"
          /\ \A c \in ConflictsOf(conflicts, r) : conflicts'[c].status = "rejected"
          /\ \A o \in DOMAIN records \ {r} : records'[o] = records[o]
          /\ \A c \in DOMAIN conflicts \ ConflictsOf(conflicts, r) :
                conflicts'[c] = conflicts[c]
          /\ DOMAIN records' = DOMAIN records
          /\ DOMAIN conflicts' = DOMAIN conflicts
    ]_vars

\* C6 witness: a rejected record whose Conflict, resolved by a resolution
\* before, is rejected now, next to another record
C6_Witness ==
    \E r \in DOMAIN records, c \in DOMAIN conflicts :
        /\ records[r].status = "rejected"
        /\ conflicts[c].record_id = r
        /\ conflicts[c].status = "rejected"
        /\ conflicts[c].resolution # ""
        /\ DOMAIN records # {r}

\* a step that stores new records, and the record it stores
Created == DOMAIN records' \ DOMAIN records

NewConflicts == DOMAIN conflicts' \ DOMAIN conflicts

\* the non-reserved fields that are non-null in both rows
Comparable(new_data, existing_data) ==
    {f \in DOMAIN new_data \cap DOMAIN existing_data :
        /\ ~StartsWithUnderscore(f)
        /\ ~IsNone(new_data[f])
        /\ ~IsNone(existing_data[f])}

\* C7: a record is created in status conflict exactly when the detector
\* returned conflicts for it, and then one pending Conflict per returned
\* conflict is stored under its id; otherwise it is created pending with an
\* empty conflicts list and no Conflict is stored.
C7_InitialStatus ==
    [][\A n \in Created :
        LET found == records'[n].conflicts
        IN  /\ records'[n].status = IF found # << >> THEN "conflict" ELSE "pending"
            /\ Cardinality(NewConflicts) = Len(found)
            /\ \A c \in NewConflicts :
                  /\ conflicts'[c].record_id = n
                  /\ conflicts'[c].status = "pending"
            /\ \A i \in DOMAIN found : \E c \in NewConflicts :
                  /\ conflicts'[c].conflict_type = found[i].type
                  /\ conflicts'[c].field_name = found[i].field
                  /\ conflicts'[c].existing_record_id = found[i].existing_record_id
    ]_vars

\* C7 witness: a record in status conflict with two returned conflicts and
\* two pending Conflicts stored under its id
C7_Witness ==
    \E n \in DOMAIN records :
        /\ records[n].status = "conflict"
        /\ Len(records[n].conflicts) = 2
        /\ Cardinality(ConflictsOf(conflicts, n)) = 2
        /\ \A c \in ConflictsOf(conflicts, n) : conflicts[c].status = "pending"

\* the stored records a new row collides with on a primary key
SameKey(n) ==
    LET pks == Range(carriers[records'[n].carrier_id].primary_key_fields)
        new_data == records'[n].mapped_data
    IN  {e \in DOMAIN records :
            /\ records[e].carrier_id = records'[n].carrier_id
            /\ records[e].status \in {"pending", "validated"}
            /\ \E pk \in pks \cap DOMAIN new_data \cap DOMAIN records[e].mapped_data :
                  records[e].mapped_data[pk] = new_data[pk]}

\* the record the detector matched for a new record in status conflict
Matched(n) == records'[n].conflicts[1].existing_record_id

\* C8 as stated: a new row colliding on a primary key is created in status
\* conflict, and every field whose non-null values differ from the matched
\* record's gets a mismatch Conflict with the two values.
C8_ValuesDiffer ==
    [][\A n \in Created :
        /\ SameKey(n) # {} => records'[n].status = "conflict"
        /\ records'[n].status = "conflict" =>
             \A f \in Comparable(records'[n].mapped_data, records[Matched(n)].mapped_data) :
                records'[n].mapped_data[f] # records[Matched(n)].mapped_data[f]
                => \E c \in NewConflicts :
                      /\ conflicts'[c].conflict_type = "mismatch"
                      /\ conflicts'[c].field_name = f
                      /\ conflicts'[c].current_value = records[Matched(n)].mapped_data[f]
                      /\ conflicts'[c].new_value = records'[n].mapped_data[f]
    ]_vars

\* C8 amended: a new row colliding on a primary key is created in status
\* conflict; every non-reserved field whose non-null values differ as strings
\* from the matched record's gets a mismatch Conflict with the two values; and
\* P1/100 followed by P1/150 gives one Conflict, on amount, 100 against 150.
C8_StringsDiffer ==
    [][\A n \in Created :
        /\ SameKey(n) # {} => records'[n].status = "conflict"
        /\ records'[n].status = "conflict" =>
             LET new_data == records'[n].mapped_data
                 old_data == records[Matched(n)].mapped_data
             IN  /\ \A f \in Comparable(new_data, old_data) :
                       Str(new_data[f]) # Str(old_data[f])
                       => \E c \in NewConflicts :
                             /\ conflicts'[c].record_id = n
                             /\ conflicts'[c].existing_record_id = Matched(n)
                             /\ conflicts'[c].conflict_type = "mismatch"
                             /\ conflicts'[c].field_name = f
                             /\ conflicts'[c].current_value = old_data[f]
                             /\ conflicts'[c].new_value = new_data[f]
                 /\ ( /\ records'[n].carrier_id = "c2"
                      /\ records[Matched(n)].raw_data = RowA
                      /\ records'[n].raw_data = RowB )
                    => \E c \in NewConflicts :
                          /\ NewConflicts = {c}
                          /\ conflicts'[c].field_name = "amount"
                          /\ conflicts'[c].current_value = PyInt(100)
                          /\ conflicts'[c].new_value = PyInt(150)
    ]_vars

\* C8 witness: the scenario's record, with its one Conflict on amount
C8_Witness ==
    \E n \in DOMAIN records, c \in DOMAIN conflicts :
        /\ records[n].carrier_id = "c2"
        /\ records[n].raw_data = RowB
        /\ records[n].status = "conflict"
        /\ ConflictsOf(conflicts, n) = {c}
        /\ conflicts[c].conflict_type = "mismatch"
        /\ conflicts[c].field_name = "amount"
        /\ conflicts[c].current_value = PyInt(100)
        /\ conflicts[c].new_value = PyInt(150)
        /\ conflicts[c].existing_record_id \in DOMAIN records
        /\ records[conflicts[c].existing_record_id].raw_data = RowA

\* C9: a row that carries none of the carrier's primary keys is created
\* pending with an empty conflicts list.
C9_NoKeyNoMatch ==
    [][\A n \in Created :
        PkConditions(records'[n].mapped_data,
                     carriers[records'[n].carrier_id].primary_key_fields) = {}
        => /\ records'[n].status = "pending"
           /\ records'[n].conflicts = << >>
    ]_vars

\* C10: the list returned for a matched record holds one mismatch per
\* comparable field whose strings differ and nothing else, or, when there is
\* no such field, one duplicate; and a row with a match gets a non-empty list.
C10_MismatchesOrDuplicate ==
    [][\A n \in Created :
        LET found == records'[n].conflicts
            new_data == records'[n].mapped_data
        IN  /\ Matches(new_data, records'[n].carrier_id,
                       carriers[records'[n].carrier_id].primary_key_fields) # {}
               => found # << >>
            /\ found # << >> =>
                 LET old_data == records[Matched(n)].mapped_data
                     differing == {f \in Comparable(new_data, old_data) :
                                      Str(new_data[f]) # Str(old_data[f])}
                 IN  IF differing = {}
                     THEN found = <<Duplicate(Matched(n))>>
                     ELSE /\ Len(found) = Cardinality(differing)
                          /\ \A f \in differing : \E i \in DOMAIN found :
                                found[i] = Mismatch(f, old_data[f], new_data[f], Matched(n))
    ]_vars

\* C10 witness: a record matched with one whose amount is another value with
\* the same string, holding one duplicate conflict
C10_Witness ==
    \E n \in DOMAIN records :
        /\ Len(records[n].conflicts) = 1
        /\ records[n].conflicts[1].type = "duplicate"
        /\ LET e == records[n].conflicts[1].existing_record_id
           IN  /\ e \in DOMAIN records
               /\ records[e].mapped_data["amount"] # records[n].mapped_data["amount"]
               /\ ~IsNone(records[e].mapped_data["amount"])
               /\ ~IsNone(records[n].mapped_data["amount"])

----------------------------------------------------------------------------
(* Conflict Resolver: data effects *)

\* the fields of a record's mapped_data other than f are what they were
OtherFieldsKept(r, f) ==
    /\ DOMAIN records'[r].mapped_data \ {f} = DOMAIN records[r].mapped_data \ {f}
    /\ \A g \in DOMAIN records[r].mapped_data \ {f} :
          records'[r].mapped_data[g] = records[r].mapped_data[g]

\* C11: resolve_conflict on an existing Conflict c leaves c resolved with the
\* chosen resolution recorded; accept_new sets the owning record's
\* mapped_data[c.field_name] to c.new_value, manual sets it to the supplied
\* value (a request that supplies none leaves the data as it is), keep_current
\* leaves the owning record's mapped_data unchanged, no other field of the
\* owning record's mapped_data changes, and the record named by
\* c.existing_record_id is not modified.
C11_ResolveData ==
    [][\A c \in DOMAIN conflicts, res \in Resolutions :
        (<<conflicts, records>>' # <<conflicts, records>>
           /\ resolve_conflict(c, res[1], res[2])) =>
          LET r == conflicts[c].record_id
              e == conflicts[c].existing_record_id
              f == conflicts[c].field_name
          IN  /\ conflicts'[c].status = "resolved"
              /\ conflicts'[c].resolution = res[1]
              /\ r \in DOMAIN records
              /\ res[1] = "accept_new" =>
                    /\ f \in DOMAIN records'[r].mapped_data
                    /\ records'[r].mapped_data[f] = conflicts[c].new_value
                    /\ OtherFieldsKept(r, f)
              /\ (res[1] = "manual" /\ ~IsNone(res[2])) =>
                    /\ f \in DOMAIN records'[r].mapped_data
                    /\ records'[r].mapped_data[f] = res[2]
                    /\ OtherFieldsKept(r, f)
              /\ (res[1] = "keep_current" \/ (res[1] = "manual" /\ IsNone(res[2]))) =>
                    records'[r].mapped_data = records[r].mapped_data
              /\ e \in DOMAIN records /\ e # r /\ records'[e] = records[e]
    ]_vars

\* C11 witness: a record with two Conflicts, one resolved by accept_new whose
\* field holds the Conflict's new value, one resolved by manual whose field
\* holds the supplied value, the matched record still holding its own values
C11_Witness ==
    \E c, d \in DOMAIN conflicts :
        LET r == conflicts[c].record_id
            e == conflicts[c].existing_record_id
        IN  /\ conflicts[d].record_id = r
            /\ conflicts[c].status = "resolved" /\ conflicts[c].resolution = "accept_new"
            /\ conflicts[d].status = "resolved" /\ conflicts[d].resolution = "manual"
            /\ conflicts[c].new_value # conflicts[c].current_value
            /\ records[r].mapped_data[conflicts[c].field_name] = conflicts[c].new_value
            /\ records[r].mapped_data[conflicts[d].field_name] = PyInt(175)
            /\ records[e].mapped_data[conflicts[c].field_name] = conflicts[c].current_value
            /\ records[e].mapped_data[conflicts[d].field_name] = conflicts[d].current_value

\* C12: resolve_conflict is idempotent per Conflict: the store a resolution
\* leaves is the store the same resolution (and manual value) of the same
\* Conflict, made again at once, leaves: the Conflict's status and resolution,
\* the owning record's mapped_data and status, and everything else.
C12_ResolveTwice ==
    [][\A c \in DOMAIN conflicts, res \in Resolutions :
        (<<conflicts, records>>' # <<conflicts, records>>
           /\ resolve_conflict(c, res[1], res[2])) =>
          ResolveIn(conflicts', records', c, res[1], res[2])
            = [conflicts |-> conflicts', records |-> records']
    ]_vars

\* C12 witness: a Conflict resolved by accept_new, its record holding the new
\* value and still in status conflict, on which accept_new made again changes
\* nothing
C12_Witness ==
    \E c \in DOMAIN conflicts :
        LET r == conflicts[c].record_id
        IN  /\ conflicts[c].status = "resolved"
            /\ conflicts[c].resolution = "accept_new"
            /\ conflicts[c].conflict_type = "mismatch"
            /\ records[r].status = "conflict"
            /\ records[r].mapped_data[conflicts[c].field_name] = conflicts[c].new_value
            /\ ResolveIn(conflicts, records, c, "accept_new", None)
                 = [conflicts |-> conflicts, records |-> records]

----------------------------------------------------------------------------
(* Payout Generator: skipped ids, commission, agent totals *)

NewPayouts == DOMAIN payouts' \ DOMAIN payouts

RECURSIVE SumPayouts(_, _)
SumPayouts(pays, ids) ==
    IF ids = {} THEN 0
    ELSE LET p == CHOOSE x \in ids : TRUE
         IN  pays[p].amount + SumPayouts(pays, ids \ {p})

\* C13: generate_payouts skips every listed id whose record does not exist or
\* is not in status validated: no Payout is created for it, the record is
\* left as it is, no record is created, an agent's total_payouts grows by the
\* amounts of the Payouts created for the other ids only (by nothing when
\* every id is skipped), and the request is answered with success.
C13_SkipNotValidated ==
    [][\A ids \in IdLists(MaxIds) :
        (last'.op = "generate_payouts" /\ generate_payouts(ids)) =>
          LET skipped == Range(ids) \ ValidatedIn(ids)
          IN  /\ last'.code = 200
              /\ DOMAIN records' = DOMAIN records
              /\ \A r \in skipped :
                    /\ PayoutsOf(payouts', r) = PayoutsOf(payouts, r)
                    /\ r \in DOMAIN records => records'[r] = records[r]
              /\ \A p \in DOMAIN payouts : payouts'[p] = payouts[p]
              /\ \A a \in DOMAIN agents :
                    agents'[a].total_payouts = agents[a].total_payouts
                        + SumPayouts(payouts', {p \in NewPayouts : payouts'[p].agent_id = a})
              /\ ValidatedIn(ids) = {} => store' = store
    ]_vars

\* C13 witness: a generate_payouts request answered with success on a store
\* of a pending and a conflict record and no Payout: each id it listed was
\* skipped
C13_Witness ==
    /\ last = [op |-> "generate_payouts", code |-> 200]
    /\ payouts = << >>
    /\ agents["a1"].total_payouts = 0
    /\ \E r, q \in DOMAIN records :
          records[r].status = "pending" /\ records[q].status = "conflict"

\* C14: every Payout generate_payouts creates carries the record's amount and
\* commission = amount x commission_rate / 100 of the agent it resolved (the
\* commission is counted in hundredths), or commission 0 and no agent when
\* none resolves; for an agent of rate 10 the commission is a tenth of the
\* amount; the agent's total_payouts grows by
\* exactly the amounts of its new Payouts, and the record is left processed.
C14_Commission ==
    [][\A p \in NewPayouts :
        LET a == payouts'[p].agent_id
            r == payouts'[p].record_id
            amount == payouts'[p].amount
            commission == payouts'[p].commission
        IN  /\ r \in DOMAIN records
            /\ amount = Amount(records[r].mapped_data)
            /\ a = FindAgent(agents, records[r].mapped_data)
            /\ a = "" => commission = 0
            /\ a # "" =>
                  /\ commission = amount * agents[a].commission_rate
                  /\ agents[a].commission_rate = 10 => commission * 10 = amount * 100
                  /\ agents'[a].total_payouts = agents[a].total_payouts
                        + SumPayouts(payouts', {q \in NewPayouts : payouts'[q].agent_id = a})
            /\ records'[r].status = "processed"
    ]_vars

\* C14 witness: a Payout of 150 with commission 15.00 for the agent of rate 10,
\* whose total_payouts is 150, next to a Payout of 100 with no agent and
\* commission 0, both records processed
C14_Witness ==
    \E p, q \in DOMAIN payouts :
        /\ payouts[p].agent_id = "a1" /\ agents["a1"].commission_rate = 10
        /\ payouts[p].amount = 150 /\ payouts[p].commission = 1500
        /\ payouts[q].agent_id = "" /\ payouts[q].amount = 100
        /\ payouts[q].commission = 0
        /\ agents["a1"].total_payouts = 150
        /\ records[payouts[p].record_id].status = "processed"
        /\ records[payouts[q].record_id].status = "processed"

\* C15: an agent's total_payouts never decreases, and it changes only in a
\* generate_payouts request, by the amounts of the Payouts created for that
\* agent; update_agent, validate_record, reject_record, resolve_conflict and
\* the uploads leave it unchanged.
C15_TotalMonotone ==
    [][\A a \in DOMAIN agents :
        /\ a \in DOMAIN agents'
        /\ agents'[a].total_payouts >= agents[a].total_payouts
        /\ agents'[a].total_payouts # agents[a].total_payouts =>
              /\ \E p \in NewPayouts : payouts'[p].agent_id = a
              /\ \E ids \in IdLists(MaxIds) : generate_payouts(ids)
              /\ agents'[a].total_payouts = agents[a].total_payouts
                    + SumPayouts(payouts', {p \in NewPayouts : payouts'[p].agent_id = a})
    ]_vars

----------------------------------------------------------------------------
(* Concurrency *)

\* the records whose payout was generated for the agent
ProcessedFor(a) ==
    {r \in DOMAIN records :
        records[r].status = "processed" /\ FindAgent(agents, records[r].mapped_data) = a}

\* C16: when the generate_payouts requests that ran at the same time have all
\* returned, each record, validated once, that they listed has exactly one
\* Payout, and its agent's total_payouts has grown by the record's amount
\* once, as if the requests had run one after the other.
C16_RaceOnePayout ==
    Idle =>
      /\ \A r \in DOMAIN records :
            Cardinality(PayoutsOf(payouts, r))
              = IF records[r].status = "processed" THEN 1 ELSE 0
      /\ \A a \in DOMAIN agents :
            agents[a].total_payouts = SumAmounts(records, ProcessedFor(a))

\* the Payouts of an agent
PayoutsFor(a) == {p \in DOMAIN payouts : payouts[p].agent_id = a}

\* a request that has inserted a Payout and has not yet added its amount
IncPending == \E call \in DOMAIN calls : calls[call].pc = "inc"

\* C17: however the generate_payouts requests that run at the same time take
\* turns, once each inserted Payout has had its increment the agent's
\* total_payouts is its initial value, 0, plus the amounts of all the Payouts
\* created for it: no increment is lost.
C17_NoLostIncrement ==
    ~IncPending =>
      \A a \in DOMAIN agents :
          agents[a].total_payouts = SumPayouts(payouts, PayoutsFor(a))

\* C17 witness: two requests in flight, each past the increment for its own
\* record, the two records distinct and of the same agent, whose total is the
\* sum of the two amounts
C17_Witness ==
    /\ DOMAIN calls = {1, 2}
    /\ calls[1].pc = "mark" /\ calls[2].pc = "mark"
    /\ calls[1].record_ids[calls[1].i] # calls[2].record_ids[calls[2].i]
    /\ calls[1].agent = "a1" /\ calls[2].agent = "a1"
    /\ Cardinality(PayoutsFor("a1")) = 2
    /\ agents["a1"].total_payouts = 250

\* the two collections after request x and then request y, each run alone
Serial(x, y) ==
    LET first == ResolveIn(calls[x].before.conflicts, calls[x].before.records,
                           calls[x].conflict_id, calls[x].resolution,
                           calls[x].manual_value)
    IN  ResolveIn(first.conflicts, first.records,
                  calls[y].conflict_id, calls[y].resolution, calls[y].manual_value)

\* C18: when two resolve_conflict requests on Conflicts of the same record,
\* arrived on the same store, have both done their writes, the record's
\* mapped_data and status are those one of the two serial orders leaves.
C18_ResolveSerializable ==
    \A x, y \in DOMAIN calls :
        ( /\ x # y
          /\ calls[x].pc = "return" /\ calls[y].pc = "return"
          /\ calls[x].before = calls[y].before
          /\ calls[x].conflict.record_id = calls[y].conflict.record_id )
        => LET r == calls[x].conflict.record_id
           IN  \/ records[r].mapped_data = Serial(x, y).records[r].mapped_data
                  /\ records[r].status = Serial(x, y).records[r].status
               \/ records[r].mapped_data = Serial(y, x).records[r].mapped_data
                  /\ records[r].status = Serial(y, x).records[r].status

----------------------------------------------------------------------------
(* Uploads: rejected requests and failures *)

\* C19: a create_upload request for an unknown carrier, or for a file whose
\* suffix, in lower case, is not .xlsx, .xls, .pdf or .csv, is answered with
\* an error (404, 400) and changes nothing in the store; and no upload is
\* ever stored or processed for an unknown carrier or such a file.
C19_RejectedBeforeProcessing ==
    /\ [](\A u \in DOMAIN uploads :
            /\ uploads[u].carrier_id \in DOMAIN carriers
            /\ Lower(Suffix(uploads[u].filename)) \in {".xlsx", ".xls", ".pdf", ".csv"})
    /\ [](DOMAIN jobs \subseteq DOMAIN uploads)
    /\ [][\A c \in CarrierIds \cup {"c0"}, f \in Filenames :
            ( /\ last'.op = "create_upload"
              /\ create_upload_reject(c, f) )
            => /\ last'.code = IF c \notin DOMAIN carriers THEN 404 ELSE 400
               /\ store' = store
               /\ jobs' = jobs
       ]_vars
    /\ [][(last'.op = "create_upload" /\ last'.code \in {400, 404}) => store' = store]_vars

\* C19 witness: a request answered 400 on a store that holds an upload and
\* its records: the file of that name was not taken
C19_Witness ==
    /\ last = [op |-> "create_upload", code |-> 400]
    /\ DOMAIN uploads = {1}
    /\ uploads[1].status = "completed"
    /\ DOMAIN records = {1}
    /\ jobs = NoJob

\* the records stored for an upload
RecordsOf(recs, upload_id) == {r \in DOMAIN recs : recs[r].upload_id = upload_id}

\* C20: when the processing of an upload fails at row k (at the first row
\* also when the extraction fails), the request is answered without an error,
\* the upload is left in status error with a message, the records of the rows
\* before k are stored as they were, and no record of row k or of a later row
\* is stored, then or later.
C20_FailureAbsorbed ==
    /\ [][\A u \in DOMAIN jobs, stored \in 0..Len(KeyOrder) :
            ( /\ last'.op = "create_upload"
              /\ create_upload_except(u, stored) )
            => /\ last'.code = 200
               /\ uploads'[u].status = "error"
               /\ "error" \in DOMAIN uploads'[u]
               /\ records' = records
               /\ Cardinality(RecordsOf(records', u)) = jobs[u].idx - 1
               /\ \A k \in 1..(jobs[u].idx - 1) : \E r \in RecordsOf(records', u) :
                     records'[r].raw_data = jobs[u].extracted_data[k]
               /\ u \notin DOMAIN jobs'
       ]_vars
    /\ [][\A u \in DOMAIN uploads :
            uploads[u].status = "error"
            => /\ uploads'[u] = uploads[u]
               /\ RecordsOf(records', u) = RecordsOf(records, u)
       ]_vars

\* C20 witness: an upload of two rows that failed at the second: it is in
\* status error with its message, the record of its first row is stored, and
\* the request was answered 200
C20_Witness ==
    \E u \in DOMAIN uploads :
        /\ uploads[u].status = "error"
        /\ "error" \in DOMAIN uploads[u]
        /\ Cardinality(RecordsOf(records, u)) = 1
        /\ last = [op |-> "create_upload", code |-> 200]
        /\ jobs = NoJob

----------------------------------------------------------------------------
(* Not-found answers *)

\* C21: resolve_conflict with an id that matches no Conflict and
\* validate_record with an id that matches no record are each answered 404
\* and leave the store, every record and Conflict included, as it was; and no
\* step answered 404 by either of them changes the store.
C21_NotFound ==
    /\ [][\A c \in ConflictIds \ DOMAIN conflicts, res \in Resolutions :
            (last'.op = "resolve_conflict" /\ resolve_conflict(c, res[1], res[2]))
            => last'.code = 404 /\ store' = store
       ]_vars
    /\ [][\A r \in RecordIds \ DOMAIN records :
            (last'.op = "validate_record" /\ validate_record(r))
            => last'.code = 404 /\ store' = store
       ]_vars
    /\ [][( /\ last'.op \in {"resolve_conflict", "validate_record"}
            /\ last'.code = 404 ) => store' = store]_vars

\* C21 witness: a request for a Conflict that does not exist answered 404 on
\* a store that holds a record in status conflict and its pending Conflict
C21_Witness ==
    /\ last = [op |-> "resolve_conflict", code |-> 404]
    /\ \E c \in DOMAIN conflicts :
          /\ conflicts[c].status = "pending"
          /\ conflicts[c].record_id \in DOMAIN records
          /\ records[conflicts[c].record_id].status = "conflict"


----------------------------------------------------------------------------
(* Upload deletion *)

\* the documents of a collection that are of another upload than u are the
\* same before and after the step, and none of u is left
OnlyOthersLeft(before, after, u) ==
    /\ DOMAIN after = {d \in DOMAIN before : before[d].upload_id # u}
    /\ \A d \in DOMAIN after : after[d] = before[d]

\* C22: a delete_upload of a stored upload succeeds and leaves no Upload, no
\* record and no Conflict of that upload, the documents of the other uploads
\* being unchanged; a delete_upload of an unknown id answers not-found and
\* changes nothing
C22_DeleteUpload ==
    [][\A u \in UploadIds :
          (last'.op = "delete_upload" /\ delete_upload(u))
          => IF u \in DOMAIN uploads
             THEN /\ last'.code = 200
                  /\ DOMAIN uploads' = DOMAIN uploads \ {u}
                  /\ \A v \in DOMAIN uploads' : uploads'[v] = uploads[v]
                  /\ OnlyOthersLeft(records, records', u)
                  /\ OnlyOthersLeft(conflicts, conflicts', u)
                  /\ UNCHANGED <<carriers, agents, payouts>>
             ELSE last'.code = 404 /\ store' = store]_vars

\* an upload was deleted, and the Conflict of another upload's record that
\* names one of the deleted records is still stored
C22_Witness ==
    /\ last = [op |-> "delete_upload", code |-> 200]
    /\ \E c \in DOMAIN conflicts :
          /\ conflicts[c].existing_record_id \notin DOMAIN records
          /\ conflicts[c].record_id \in DOMAIN records


----------------------------------------------------------------------------
(* The raw payload *)

\* C23: in every reachable state the _raw entry of a record's mapped_data is
\* the record's raw_data, whatever the carrier maps (a column mapped to _raw
\* included) and whatever Conflicts have been resolved
C23_RawKept ==
    \A r \in DOMAIN records :
        /\ "_raw" \in DOMAIN records[r].mapped_data
        /\ records[r].mapped_data["_raw"] = records[r].raw_data

\* a record of the carrier that maps a column to _raw, one of whose Conflicts
\* was resolved by accepting the new value
C23_Witness ==
    \E c \in DOMAIN conflicts :
        /\ conflicts[c].status = "resolved"
        /\ conflicts[c].resolution = "accept_new"
        /\ conflicts[c].record_id \in DOMAIN records
        /\ records[conflicts[c].record_id].carrier_id = "c4"
        /\ DOMAIN records[conflicts[c].record_id].mapped_data
              # {"policy_number", "_raw"}


----------------------------------------------------------------------------
(* Export *)

\* the validated records an export with this carrier filter is about
Approved(carrier_id) ==
    {r \in DOMAIN records :
        /\ records[r].status = "validated"
        /\ carrier_id # "" => records[r].carrier_id = carrier_id}

\* the row of the format holds the mapped fields of record r
RowOf(format, row, r) ==
    LET mapped == records[r].mapped_data
        named == {f \in DOMAIN mapped : ~StartsWithUnderscore(f)}
    IN  CASE format = "json" ->
               /\ row["_record_id"] = r
               /\ \A f \in named : row[f] = mapped[f]
          [] format = "csv" ->
               \A f \in named :
                   row[f] = IF IsNone(mapped[f]) THEN "" ELSE Str(mapped[f])
          [] format = "zoho" ->
               /\ Truthy(Get(mapped, "agent_code"))
                     => row.AC_Account_Number = mapped["agent_code"]
               /\ Truthy(Get(mapped, "amount")) => row.Total_WP = mapped["amount"]

\* C24: an export, in each format, answers one row for each validated record
\* (of the carrier, when one is given), in the order of the store, and none
\* for a record in another status; it changes nothing in the store
C24_ExportRows ==
    [][(last' # last /\ last'.op = "export_approved_data")
          => /\ store' = store
             /\ last'.code = 200
                   => LET ids == InOrder(Approved(last'.carrier_id))
                      IN  /\ last'.format \in Formats
                          /\ last'.count = Cardinality(Approved(last'.carrier_id))
                          /\ DOMAIN last'.data = DOMAIN ids
                          /\ \A i \in DOMAIN ids :
                                RowOf(last'.format, last'.data[i], ids[i])]_vars

\* an export for one carrier answered one row, while a record of the other
\* carrier is validated too
C24_Witness ==
    /\ last.op = "export_approved_data"
    /\ last.code = 200
    /\ last.carrier_id = "c1"
    /\ last.count = 1
    /\ \E r \in DOMAIN records :
          records[r].carrier_id = "c2" /\ records[r].status = "validated"

\* C25: an export asked when no record is validated (for the carrier, when
\* one is given) answers not-found in each format, and an export that
\* succeeds is never empty
C25_ExportNotFound ==
    /\ [][\A format \in Formats, c \in CarrierFilters :
            ( /\ last.op # "off"
              /\ Approved(c) = {}
              /\ export_approved_data(format, c) )
            => last' = [op |-> "export_approved_data", code |-> 404]]_vars
    /\ [][(last' # last /\ last'.op = "export_approved_data" /\ last'.code = 200)
            => last'.count > 0 /\ Len(last'.data) > 0]_vars

\* an export answered not-found after the validated record was processed
C25_Witness ==
    /\ last = [op |-> "export_approved_data", code |-> 404]
    /\ \E r \in DOMAIN records : records[r].status = "processed"
    /\ \A r \in DOMAIN records : records[r].status # "validated"


----------------------------------------------------------------------------
(* Conflict Detector: what a Conflict may name *)

\* C26: a Conflict that a step creates names, as its existing record, a stored
\* record of the new record's carrier that was validated or pending before
\* the step; never a record of another carrier, nor one that was in status
\* conflict, rejected or processed
C26_MatchedRecord ==
    [][\A c \in NewConflicts :
          LET e == conflicts'[c].existing_record_id
              n == conflicts'[c].record_id
          IN  /\ e \in DOMAIN records
              /\ n \in Created
              /\ records[e].carrier_id = records'[n].carrier_id
              /\ records[e].status \in {"validated", "pending"}]_vars

\* a row was ingested while a rejected record of its carrier held the same
\* policy number, and it got no Conflict
C26_Witness ==
    \E e, n \in DOMAIN records :
        /\ e < n
        /\ records[e].carrier_id = records[n].carrier_id
        /\ records[e].carrier_id = "c2"
        /\ records[e].status = "rejected"
        /\ records[e].upload_id # records[n].upload_id
        /\ "policy_number" \in DOMAIN records[e].mapped_data
        /\ "policy_number" \in DOMAIN records[n].mapped_data
        /\ records[e].mapped_data["policy_number"] = records[n].mapped_data["policy_number"]
        /\ records[n].conflicts = << >>
        /\ records[n].status = "pending"


----------------------------------------------------------------------------
(* Uploads at the same time *)

\* the two rows hold the same non-null value for a primary key of the carrier
ShareKey(carrier_id, data, other) ==
    \E pk \in Range(carriers[carrier_id].primary_key_fields) :
        /\ pk \in DOMAIN data \cap DOMAIN other
        /\ ~IsNone(data[pk])
        /\ data[pk] = other[pk]

\* the stored rows of other uploads that share a primary key with the row
\* that this step stores as record n
EarlierRows(n) ==
    {e \in DOMAIN records :
        /\ records[e].upload_id # records'[n].upload_id
        /\ records[e].carrier_id = records'[n].carrier_id
        /\ ShareKey(records'[n].carrier_id, records'[n].mapped_data,
                    records[e].mapped_data)}

\* the upload that stores record n has run beside no other upload
StoredAlone(n) ==
    /\ records'[n].upload_id \in DOMAIN jobs
    /\ jobs[records'[n].upload_id].alone

\* C27 as stated: when an upload runs after the other has completed, its row
\* that shares a primary-key value with a row of the other upload is always
\* created in status conflict.
C27_SerialAlwaysConflict ==
    [][\A n \in Created :
          (StoredAlone(n) /\ EarlierRows(n) # {})
          => records'[n].status = "conflict"]_vars

\* C27: when an upload runs after the other has completed, its row that
\* shares a primary-key value with a row of the other upload that is pending
\* or validated is created in status conflict, with a Conflict stored for it;
\* two uploads that run at the same time can both store such rows as pending
\* with no Conflict (the state of C27_Witness)
C27_SerialConflict ==
    [][\A n \in Created :
          ( /\ StoredAlone(n)
            /\ \E e \in EarlierRows(n) : records[e].status \in {"pending", "validated"} )
          => /\ records'[n].status = "conflict"
             /\ \E c \in NewConflicts : conflicts'[c].record_id = n]_vars

\* two uploads ran at the same time and have completed: their rows that hold
\* the same policy number and agent code are both pending, and no Conflict
\* is stored
C27_Witness ==
    /\ DOMAIN jobs = {}
    /\ conflicts = << >>
    /\ \E a, b \in DOMAIN records :
          /\ records[a].upload_id # records[b].upload_id
          /\ records[a].carrier_id = records[b].carrier_id
          /\ ShareKey(records[a].carrier_id, records[a].mapped_data,
                      records[b].mapped_data)
          /\ records[a].status = "pending"
          /\ records[b].status = "pending"
          /\ uploads[records[a].upload_id].status = "completed"
          /\ uploads[records[b].upload_id].status = "completed"


----------------------------------------------------------------------------
(* Conflicts are a snapshot *)

\* the records that the detector matched record n against
MatchedBy(n) ==
    {records[n].conflicts[i].existing_record_id : i \in DOMAIN records[n].conflicts}

\* the step is a request on record e, which is not a request on record n:
\* e is validated, rejected or paid, a Conflict of e is resolved, or the
\* upload of e (another one than the upload of n) is deleted
RequestOn(e, n) ==
    \/ validate_record(e)
    \/ reject_record(e)
    \/ generate_payouts(<<e>>)
    \/ \E c \in DOMAIN conflicts, res \in Resolutions :
          conflicts[c].record_id = e /\ resolve_conflict(c, res[1], res[2])
    \/ /\ e \in DOMAIN records
       /\ records[e].upload_id # records[n].upload_id
       /\ delete_upload(records[e].upload_id)

\* record n, its embedded list and its Conflicts are what they were
Untouched(n) ==
    /\ n \in DOMAIN records'
    /\ records'[n].status = records[n].status
    /\ records'[n].conflicts = records[n].conflicts
    /\ {c \in DOMAIN conflicts' : conflicts'[c].record_id = n}
          = {c \in DOMAIN conflicts : conflicts[c].record_id = n}
    /\ \A c \in DOMAIN conflicts :
          conflicts[c].record_id = n => conflicts'[c] = conflicts[c]

----------------------------------------------------------------------------
(* Conflict documents: the field they name *)

\* the field a mismatch Conflict may name: a mapped field of its record that
\* is not reserved
NamesMappedField(c) ==
    /\ conflicts[c].field_name # ""
    /\ ~StartsWithUnderscore(conflicts[c].field_name)
    /\ conflicts[c].record_id \in DOMAIN records
          => conflicts[c].field_name \in DOMAIN records[conflicts[c].record_id].mapped_data

\* C29: in every reachable state a duplicate Conflict has an empty
\* field_name, and a mismatch Conflict has a non-empty field_name that names
\* a non-reserved mapped field of its record
C29_FieldNames ==
    \A c \in DOMAIN conflicts :
        /\ conflicts[c].conflict_type = "duplicate" => conflicts[c].field_name = ""
        /\ conflicts[c].conflict_type = "mismatch" => NamesMappedField(c)


----------------------------------------------------------------------------
(* Tabular extractor: the header row *)

\* the row has at least five non-empty cells within the first
\* min(50, last column) columns
HeaderLike(sheet, row) ==
    Cardinality({col \in 1..Min(ScanCols, sheet.max_column) :
                    NonEmpty(Cell(sheet, row, col))}) >= HeaderCells

\* the header-like rows among rows 1..min(20, last row)
Candidates(sheet) ==
    {row \in 1..Min(ScanRows, sheet.max_row) : HeaderLike(sheet, row)}

\* C30: with no header row configured, the header is the first row among
\* rows 1..min(20, last row) that has at least 5 non-empty cells within the
\* first min(50, last column) columns, and row 1 when there is none; the data
\* start at the row after the header unless a start row is configured
C30_HeaderRow ==
    \A call \in DOMAIN calls :
        (calls[call].op = "extract_excel_data" /\ calls[call].pc # "header")
        => LET c == calls[call]
           IN  /\ IsNone(c.configured.header_row)
                     => /\ Candidates(c.sheet) = {} => c.header_row = PyInt(1)
                        /\ Candidates(c.sheet) # {}
                              => /\ c.header_row.int \in Candidates(c.sheet)
                                 /\ \A row \in Candidates(c.sheet) :
                                       c.header_row.int <= row
               /\ IsNone(c.configured.start_row)
                     => c.start_row = PyInt(c.header_row.int + 1)
               /\ ~IsNone(c.configured.start_row)
                     => c.start_row = c.configured.start_row


----------------------------------------------------------------------------
(* Conflict Detector: how many conflicts a record gets *)

\* the non-reserved fields of a mapped row
NamedFields(mapped_data) == {f \in DOMAIN mapped_data : ~StartsWithUnderscore(f)}

\* C31: a record is created with at most as many conflicts as its mapped
\* data has non-reserved fields, a lone duplicate included
C31_ConflictCount ==
    [][\A n \in Created :
          Len(records'[n].conflicts)
             <= Cardinality(NamedFields(records'[n].mapped_data))]_vars


----------------------------------------------------------------------------
(* Payout Generator: the agent of a Payout *)

\* the agents whose agent_code is the string of the mapped value of the field
AgentsNamedBy(mapped, field) ==
    {a \in DOMAIN agents :
        /\ Truthy(Get(mapped, field))
        /\ agents[a].agent_code = Str(mapped[field])}

\* C32: the agent of a Payout is looked up by the mapped agent_code, then
\* agent_id, then producer_code: the Payout goes to an agent that the first
\* of these values naming an agent names, and its agent is null only when
\* none of the three names an agent
C32_AgentFallback ==
    [][\A p \in NewPayouts :
          LET mapped == records[payouts'[p].record_id].mapped_data
              byCode == AgentsNamedBy(mapped, "agent_code")
              byId == AgentsNamedBy(mapped, "agent_id")
              byProducer == AgentsNamedBy(mapped, "producer_code")
              named == IF byCode # {} THEN byCode
                       ELSE IF byId # {} THEN byId ELSE byProducer
          IN  IF named = {} THEN payouts'[p].agent_id = ""
              ELSE payouts'[p].agent_id \in named]_vars


----------------------------------------------------------------------------
(* Carriers: the code *)

\* C33: whatever carriers are created, updated and deleted, no two stored
\* carriers have the same code (a request that would store a second carrier
\* of a code being rejected)
C33_UniqueCode ==
    \A a, b \in DOMAIN carriers : carriers[a].code = carriers[b].code => a = b


----------------------------------------------------------------------------
(* Records and their pending Conflicts *)

\* the pending Conflicts of a record
PendingOf(record_id) ==
    {c \in DOMAIN conflicts :
        conflicts[c].record_id = record_id /\ conflicts[c].status = "pending"}

\* C34: when no request is in flight, a stored record has a pending Conflict
\* exactly when it is in status conflict
C34_PendingIffConflict ==
    Idle => \A r \in DOMAIN records :
                PendingOf(r) # {} <=> records[r].status = "conflict"


----------------------------------------------------------------------------
(* Rows of one file *)

\* the stored rows of the same upload that share a primary key with the row
\* that this step stores as record n
EarlierRowsOfFile(n) ==
    {e \in DOMAIN records :
        /\ records[e].upload_id = records'[n].upload_id
        /\ ShareKey(records'[n].carrier_id, records'[n].mapped_data,
                    records[e].mapped_data)}

\* C35 as stated: whenever two rows of one upload hold the same value for a
\* primary-key field of the carrier, the later row's record is created in
\* status conflict.
C35_LaterRowAlwaysConflict ==
    [][\A n \in Created :
          EarlierRowsOfFile(n) # {} => records'[n].status = "conflict"]_vars

\* C35: the rows of an upload are stored in file order and each row's
\* detector sees the earlier rows of the file: whenever a row holds the same
\* value for a primary-key field as an earlier row of its upload whose record
\* is pending or validated, its record is created in status conflict
C35_LaterRowConflict ==
    [][\A n \in Created :
          /\ \A e \in DOMAIN records :
                records[e].upload_id = records'[n].upload_id => e < n
          /\ (\E e \in EarlierRowsOfFile(n) :
                 records[e].status \in {"pending", "validated"})
             => records'[n].status = "conflict"]_vars

\* the second row of a file was matched against the first row of the file
C35_Witness ==
    \E n \in DOMAIN records :
        /\ records[n].status = "conflict"
        /\ records[n].conflicts # << >>
        /\ records[n].conflicts[1].existing_record_id \in DOMAIN records
        /\ records[records[n].conflicts[1].existing_record_id].upload_id
              = records[n].upload_id


----------------------------------------------------------------------------
(* Counters of a completed upload *)

UploadConflicts(upload_id) ==
    {c \in DOMAIN conflicts : conflicts[c].upload_id = upload_id}

\* C36: every upload in status completed has total_records and
\* processed_records equal to the number of stored records of the upload and
\* conflict_count equal to the number of stored Conflicts of the upload, also
\* after later resolve, validate, reject and generate requests
C36_CompletedCounts ==
    \A u \in DOMAIN uploads :
        uploads[u].status = "completed"
        => /\ uploads[u].total_records = Cardinality(RecordsOf(records, u))
           /\ uploads[u].processed_records = Cardinality(RecordsOf(records, u))
           /\ uploads[u].conflict_count = Cardinality(UploadConflicts(u))

\* a completed upload with two Conflicts, one of them resolved since, whose
\* record was paid out
C36_Witness ==
    \E u \in DOMAIN uploads :
        /\ uploads[u].status = "completed"
        /\ uploads[u].conflict_count >= 2
        /\ \E c \in UploadConflicts(u) : conflicts[c].status = "resolved"
        /\ \E p \in DOMAIN payouts : payouts[p].record_id \in RecordsOf(records, u)


----------------------------------------------------------------------------
(* Resolving a duplicate *)

\* the duplicate Conflicts that this step resolves
ResolvedDuplicates ==
    {c \in DOMAIN conflicts :
        /\ conflicts[c].conflict_type = "duplicate"
        /\ conflicts[c].status = "pending"
        /\ conflicts'[c].status = "resolved"}

\* C37: resolving a duplicate Conflict, with whichever resolution, leaves the
\* mapped_data of the record that owns it as it was
C37_DuplicateKeepsData ==
    [][conflicts' # conflicts =>
         \A c \in ResolvedDuplicates :
            conflicts[c].record_id \in DOMAIN records
            => records'[conflicts[c].record_id].mapped_data
                 = records[conflicts[c].record_id].mapped_data]_vars


----------------------------------------------------------------------------
(* Deleting a running upload *)

\* C38: however delete_upload(u) interleaves with the create_upload that still
\* runs for u, once the requests have finished no record and no Conflict is
\* left whose upload_id names an upload that does not exist
C38_NoOrphans ==
    Idle => /\ \A r \in DOMAIN records : records[r].upload_id \in DOMAIN uploads
            /\ \A c \in DOMAIN conflicts : conflicts[c].upload_id \in DOMAIN uploads


----------------------------------------------------------------------------
(* Rejecting an unknown record *)

\* C39: reject_record with an id that matches no record is answered 404 (not
\* found) and not with a success
C39_RejectNotFound ==
    [][\A r \in RecordIds \ DOMAIN records :
          (last'.op = "reject_record" /\ reject_record(r))
          => last'.code = 404]_vars


----------------------------------------------------------------------------
(* Completing a payout *)

\* C40: every payout is created pending; the status of a payout changes only
\* by complete_payout and only to completed, never back; complete_payout on
\* an existing payout, a completed one included, is answered with success,
\* and with 404 only when no payout has the id
C40_PayoutStatus ==
    [][ /\ \A p \in NewPayouts : payouts'[p].status = "pending"
        /\ \A p \in DOMAIN payouts :
              /\ p \in DOMAIN payouts'
              /\ payouts'[p].status # payouts[p].status
                 => /\ complete_payout(p)
                    /\ payouts'[p].status = "completed"
              /\ payouts[p].status = "completed" => payouts'[p].status = "completed"
        /\ \A p \in PayoutIds :
              (last'.op = "complete_payout" /\ complete_payout(p))
              => last'.code = IF p \in DOMAIN payouts THEN 200 ELSE 404
      ]_vars

============================================================================
